---------------------------- MODULE Spec2Model ----------------------------
(***************************************************************************)
(* A model of scripts/nuke_account/main.py (SafetyCultureNuker, run_nuke). *)
(*                                                                         *)
(* Several specifications share the module:                                *)
(*   SpecRequest    one delete procedure (_delete_with_params) driving one *)
(*                  _request_json call against a clock;                    *)
(*   SpecChunk      the batching loop of delete_actions over chunked();    *)
(*   Spec           run_nuke over one kind: its listing loop and its       *)
(*                  deletion tasks under delete_sem;                       *)
(*   SpecRun        run_nuke from the prompt on, over up to two kinds;     *)
(*   SpecActions    delete_actions against a backend that holds actions;   *)
(*   SpecInterrupt  a run that a KeyboardInterrupt may end;                *)
(*   SpecTally      a run whose deletion tasks hold the gate together;     *)
(*   SpecOsha       delete_osha_cases alone, with fairness;                *)
(*   SpecStream     actions/delete_action_schedules: stream_actions_offset;*)
(*   SpecAssets     assets/delete_assets: archive_and_delete_assets;       *)
(*   SpecUnarchive  inspections/unarchive_inspections:                     *)
(*                  unarchive_single_inspection;                           *)
(*   SpecResume     inspections/unarchive_inspections: main, run after     *)
(*                  run.                                                   *)
(***************************************************************************)
EXTENDS Integers, Sequences, FiniteSets, TLC

(***************************************************************************)
(* Bounds of the model.                                                    *)
(***************************************************************************)
\* largest oversleep of asyncio.sleep (it sleeps at least the delay asked)
MaxJitter == 1
\* chunked(): longest input list and largest batch size tried
MaxChunkItems == 4
MaxChunkSize == 3
\* distinct identifiers a backend lists (0 stands for "no id")
MaxId == 2
\* items a backend returns in one page of a token or link paginated kind
MaxPageItems == 2
\* listing responses one pagination loop gets before the backend's listing ends
MaxPages == 2
\* the last page number of the OSHA listing that holds cases
MaxOshaPages == 4
\* distinct page tokens a backend hands out (0 stands for "no token")
MaxToken == 2
\* kinds one run is planned with (the others are named in --skip)
MaxPlanned == 1
\* SpecRun: kinds one run is planned with, and pages a listing holds
MaxRunPlanned == 2
MaxRunPages == 1
\* SpecActions: actions the backend holds at the start
MaxActions == 4
\* SpecStream: actions the backend holds
MaxStreamActions == 5
\* SpecAssets: assets handed to archive_and_delete_assets
MaxAssets == 3
\* SpecUnarchive: characters of a Retry-After header
MaxHeaderLen == 3
\* SpecResume: characters of an audit_id, rows of input.csv, runs
MaxIdLen == 2
MaxInput == 2
MaxRuns == 2

(***************************************************************************)
(* Program constants.  The page and batch sizes are scaled down from the   *)
(* source (100, 300, 100, 95, 40, 16, 8) and are raised with the bounds.   *)
(***************************************************************************)
ACTION_PAGE_SIZE == 2
ACTION_DELETE_BATCH_SIZE == 3
OSHA_PAGE_SIZE == 1
OSHA_MAX_PAGE_NUMBER == 4
SITE_DELETE_BATCH_SIZE == 1
DELETE_CONCURRENCY == 1
LIST_CONCURRENCY == 2

\* delete_action_schedules: PAGE_SIZE and LIST_CONCURRENCY (100 and 12 in
\* the source)
PAGE_SIZE == 2
SCHEDULES_LIST_CONCURRENCY == 3
\* delete_assets: the chunk length of archive_and_delete_assets,
\* DELETE_CONCURRENCY and the attempts of one call (200, 12 and 3 in the
\* source)
ASSET_CHUNK == 2
ASSETS_DELETE_CONCURRENCY == 2
AssetAttempts == 2
\* unarchive_inspections: MAX_RETRIES and RETRY_BASE_DELAY
MAX_RETRIES == 3
RETRY_BASE_DELAY == 2
\* unarchive_inspections: BATCH_SIZE and CSV_BUFFER_SIZE (5000 and 100 in
\* the source)
BATCH_SIZE == 2
CSV_BUFFER_SIZE == 2

RETRY_STATUS_CODES == {429, 500, 502, 503, 504}

\* expected_status: the default of _request_json, and the tuple the delete
\* procedures pass
DefaultExpected == {200, 201, 202, 204}
DeleteExpected == {200, 204}

\* range(1, 5): the last attempt number
LastAttempt == 4

\* stats.errors[:5]: the errors of a kind run_nuke prints
ErrorsShown == 5

Min(a, b) == IF a < b THEN a ELSE b

RECURSIVE Pow2(_)
Pow2(n) == IF n = 0 THEN 1 ELSE 2 * Pow2(n - 1)

(***************************************************************************)
(* _request_json: what one attempt's response leads to.                    *)
(* A response is [kind, status, retry_after, text]: kind "http" carries a   *)
(* status, possibly a Retry-After header (0 = absent) and the body text,   *)
(* "ClientError" is an                                                     *)
(* aiohttp.ClientError raised by the request, "TimeoutError" is the        *)
(* asyncio.TimeoutError of the session's total timeout, which is no        *)
(* ClientError.                                                            *)
(***************************************************************************)
HttpText(status, ra, text) ==
    [kind |-> "http", status |-> status, retry_after |-> ra, text |-> text]
Http(status, ra) == HttpText(status, ra, "body")
ConnFail == [kind |-> "ClientError", status |-> 0, retry_after |-> 0, text |-> ""]
TimedOut == [kind |-> "TimeoutError", status |-> 0, retry_after |-> 0, text |-> ""]

\* the delay of the backoff before the attempt after `attempt`: 2 ** attempt
\* (the variant sleeps for the Retry-After of a 429 that carries one)
BackoffDelayAlt(attempt, resp) ==
    IF resp.kind = "http" /\ resp.status = 429 /\ resp.retry_after > 0
    THEN resp.retry_after ELSE Pow2(attempt)
BackoffDelay(attempt, resp) == Pow2(attempt)

\* whether a non-expected response is retried
ShouldRetry(attempt, resp) ==
    /\ attempt < LastAttempt
    /\ \/ resp.kind = "ClientError"
       \/ resp.kind = "http" /\ resp.status \in RETRY_STATUS_CODES

\* "return" | "sleep" | "RuntimeError" | "TimeoutError"
AfterResponse(attempt, resp, expected) ==
    IF resp.kind = "TimeoutError" THEN "TimeoutError"
    ELSE IF resp.kind = "http" /\ resp.status \in expected THEN "return"
    ELSE IF ShouldRetry(attempt, resp) THEN "sleep"
    ELSE "RuntimeError"

(***************************************************************************)
(* chunked(items, size)                                                    *)
(***************************************************************************)
\* items[i : j] of a Python list (0-based, j exclusive, clipped to the end)
\* (the variant clips one element early)
PySliceShort(items, i, j) == SubSeq(items, i + 1, Min(j, Len(items) - 1))
PySlice(items, i, j) == SubSeq(items, i + 1, Min(j, Len(items)))

\* range(0, len(items), size) has ceil(len / size) elements
NumChunks(items, size) == (Len(items) + size - 1) \div size

chunked(items, size) ==
    [k \in 1..NumChunks(items, size) |->
        PySlice(items, (k - 1) * size, (k - 1) * size + size)]

RECURSIVE Concat(_)
Concat(seqs) ==
    IF seqs = <<>> THEN <<>> ELSE Head(seqs) \o Concat(Tail(seqs))

Ids == 1..MaxId

\* every sequence over S of length at most n
RECURSIVE SeqUpTo(_, _)
SeqUpTo(S, n) ==
    IF n = 0 THEN {<<>>}
    ELSE LET shorter == SeqUpTo(S, n - 1)
         IN  shorter \cup {Append(q, x) : q \in shorter, x \in S}

(***************************************************************************)
(* State.                                                                  *)
(***************************************************************************)
VARIABLES
    \* -- one delete procedure and its request (SpecRequest)
    rqPc,        \* "send" | "sleep" | "done"
    rqLog,       \* the responses of the attempts made, in order
    rqSlept,     \* the delays passed to asyncio.sleep, in order
    rqGaps,      \* time elapsed between response i and the start of attempt i+1
    rqOutcome,   \* "none" | "return" | "RuntimeError" | "TimeoutError"
    rqStats,     \* the caller's ResourceStats
    \* -- the batching loop (SpecChunk)
    chItems,     \* ids
    chSize,      \* the batch size
    chI,         \* the generator's i
    chOut,       \* the batches handed to create_task, in order
    chBatches,   \* stats.batches
    \* -- run_nuke (Spec): the arguments and the run
    yes,         \* args.yes
    skip,        \* skip_resources
    confirm,     \* the stripped line typed at the prompt ("" before it)
    runPc,       \* "confirm" | "processing" | "summary" | "done" | "aborted" |
                 \* "crashed" | "interrupted"
    idx,         \* the index in Targets of the kind being processed
    summaries,   \* the ResourceStats of the kinds that returned
    printed,     \* the lines of the final summary
    \* -- the kind being processed
    stats,       \* its ResourceStats
    kpc,         \* where its delete method waits
    pageNo,      \* listing responses its current loop has received
    pageToken,   \* page_token (0: None)
    nextUrl,     \* next_url (<<>>: None)
    pass,        \* delete_assets: 1 for state_filter None, 2 for archived
    seen,        \* delete_assets: seen_ids
    tasks,       \* delete_tasks
    data,        \* the pagination fields of the page whose tasks are gathered
    awaited,     \* delete_osha_cases: (current_page, task), the fetch awaited
    inFlight,    \* delete_osha_cases: in_flight, as (page_number, task) pairs
    pageNumber,  \* delete_osha_cases: page_number
    tokenMode,   \* delete_osha_cases: token_mode
    nextToken,   \* delete_osha_cases: next_token (0: None)
    \* -- what the backend saw of the kind being processed
    listLog,     \* the listing requests issued, as [page_number, page_token]
    processed,   \* the pages consumed, as [page_number, page_token, n, next]
    listed,      \* what was listed: [n, incomplete, token, last, link, ids]
    delCalls,    \* per id, the delete calls that carried it (counted up to 2)
    only404,     \* every archive or delete response so far was a 404
    \* -- the backend
    limits,      \* the pages its listings hold at most, [pages, osha], and
                 \* with them the run's delete_concurrency, gate
    remaining,   \* the actions it still holds, in listing order (SpecActions)
    \* -- the other scripts of the repository
    stream,      \* delete_action_schedules: stream_actions_offset (SpecStream)
    assetRun,    \* delete_assets: archive_and_delete_assets (SpecAssets)
    unarchive,   \* unarchive_inspections: unarchive_single_inspection
                 \* (SpecUnarchive)
    resume       \* unarchive_inspections: main, run after run (SpecResume)

rqVars == <<rqPc, rqLog, rqSlept, rqGaps, rqOutcome, rqStats>>
chVars == <<chItems, chSize, chI, chOut, chBatches>>
runVars == <<yes, skip, confirm, runPc, idx, summaries, printed>>
cursorVars == <<pageNo, pageToken, nextUrl, pass, seen, data>>
oshaVars == <<awaited, inFlight, pageNumber, tokenMode, nextToken>>
backendVars == <<listLog, processed, listed, delCalls, only404>>
kindVars == <<stats, kpc, tasks, cursorVars, oshaVars, backendVars>>
toolVars == <<stream, assetRun, unarchive, resume>>
envVars == <<limits, remaining, toolVars>>
nukeVars == <<runVars, kindVars, envVars>>
vars == <<rqVars, chVars, nukeVars>>

\* ResourceStats(name) as constructed
NewStats(name) ==
    [name |-> name, fetched |-> 0, deleted |-> 0, failed |-> 0, batches |-> 0,
     errors |-> <<>>]

\* ResourceStats.record_failure(message, count)
record_failure(st, message, count) ==
    [st EXCEPT !.failed = @ + count, !.errors = Append(@, message)]

\* stream_actions_offset before it is called; held is the number of actions
\* the backend holds
NoStream ==
    [pc |-> "idle", held |-> 0, offset |-> 0, in_flight |-> <<>>,
     exhausted |-> FALSE, page_number |-> 0, awaited |-> [offset |-> 0, st |-> "none"],
     requested |-> <<>>, yielded |-> <<>>]

\* archive_and_delete_assets before it is called
NoAssetRun ==
    [pc |-> "idle", assets |-> <<>>, start |-> 0, tasks |-> <<>>,
     archives |-> <<>>, deletes |-> <<>>, log |-> <<>>,
     archive_successes |-> 0, archive_skipped |-> 0, delete_successes |-> 0,
     total_failures |-> 0]

\* unarchive_single_inspection before it is called
NoUnarchive ==
    [pc |-> "idle", attempt |-> 0, tries |-> <<>>, slept |-> <<>>, rows |-> <<>>]

\* the unarchive script before its first run
NoResume ==
    [pc |-> "idle", run |-> 0, input |-> <<>>, log |-> <<>>, audit_ids |-> <<>>,
     pending |-> {}, csv_buffer |-> <<>>, requests |-> {}, prior |-> {},
     mark |-> 0, produced |-> <<>>]

\* the components at rest
StreamIdle == stream = NoStream
AssetsIdle == assetRun = NoAssetRun
UnarchiveIdle == unarchive = NoUnarchive /\ resume = NoResume
ToolsIdle == StreamIdle /\ AssetsIdle /\ UnarchiveIdle
RqIdle ==
    /\ rqPc = "idle" /\ rqLog = <<>> /\ rqSlept = <<>> /\ rqGaps = <<>>
    /\ rqOutcome = "none" /\ rqStats = NewStats("none")
ChIdle ==
    /\ chItems = <<>> /\ chSize = 1 /\ chI = 0 /\ chOut = <<>> /\ chBatches = 0

\* run_nuke's targets, in order
Targets ==
    <<"actions", "issues", "inspections", "assets", "credentials", "companies",
      "osha_cases", "templates", "sites">>
Kinds == {Targets[i] : i \in 1..Len(Targets)}
NoKind == Len(Targets) + 1

\* the pagination fields of a listing response: next_page_token (0: absent),
\* metadata.next_page (<<>>: absent) and the number of items listed
NoData == [token |-> 0, next_page |-> <<>>, n |-> 0]

NoneListed ==
    [n |-> 0, incomplete |-> 0, token |-> FALSE, last |-> 0, link |-> <<>>,
     ids |-> {}]

\* a page fetch of delete_osha_cases: its page_number and whether the
\* request has been answered ("pending" | "done"); page 0: no fetch
NoFetch == [page |-> 0, st |-> "none"]

KindIdle ==
    /\ stats = NewStats("none") /\ kpc = "idle" /\ tasks = <<>>
    /\ pageNo = 0 /\ pageToken = 0 /\ nextUrl = <<>> /\ pass = 1 /\ seen = {}
    /\ data = NoData
    /\ awaited = NoFetch /\ inFlight = <<>> /\ pageNumber = 1 /\ tokenMode = FALSE
    /\ nextToken = 0
    /\ listLog = <<>> /\ processed = <<>> /\ listed = NoneListed
    /\ delCalls = [i \in Ids |-> 0]
    /\ only404 = TRUE
\* a backend whose listings run to the full depth of the model
DeepBackend ==
    /\ limits = [pages |-> MaxPages, osha |-> MaxOshaPages,
                 gate |-> DELETE_CONCURRENCY]
    /\ remaining = <<>>
NukeIdle ==
    /\ yes = FALSE /\ skip = {} /\ confirm = "" /\ runPc = "idle" /\ idx = 0
    /\ summaries = <<>> /\ printed = <<>>
    /\ KindIdle
    /\ DeepBackend

(***************************************************************************)
(* SpecRequest: _delete_with_params awaiting _request_json.                *)
(***************************************************************************)
RqStatuses == {200, 201, 204, 400, 404, 409, 429, 500, 502, 503, 504}
RqResponses ==
    {Http(s, 0) : s \in RqStatuses}
        \cup {HttpText(s, 0, "") : s \in {404, 409}}
        \cup {Http(429, 3), ConnFail, TimedOut}

\* the exception the request ends with, as the text of it shows: a
\* RuntimeError "... failed (<status>): <text>" or "... failed: <error>", or
\* the asyncio.TimeoutError left uncaught
\* (the variant leaves the body out of the message)
ErrorTextNoBody(outcome, resp) ==
    IF outcome = "TimeoutError" THEN [what |-> "TimeoutError", status |-> 0, text |-> ""]
    ELSE IF resp.kind = "ClientError"
    THEN [what |-> "failed: ClientError", status |-> 0, text |-> ""]
    ELSE [what |-> "failed (status): text", status |-> resp.status, text |-> ""]
ErrorText(outcome, resp) ==
    IF outcome = "TimeoutError" THEN [what |-> "TimeoutError", status |-> 0, text |-> ""]
    ELSE IF resp.kind = "ClientError"
    THEN [what |-> "failed: ClientError", status |-> 0, text |-> ""]
    ELSE [what |-> "failed (status): text", status |-> resp.status,
          text |-> resp.text]

InitRequest ==
    /\ rqPc = "send" /\ rqLog = <<>> /\ rqSlept = <<>> /\ rqGaps = <<>>
    /\ rqOutcome = "none" /\ rqStats = NewStats("credentials")
    /\ ChIdle /\ NukeIdle /\ ToolsIdle

\* one pass of the for loop: the request, its response, and what follows it
RqAttempt(resp) ==
    /\ rqPc = "send"
    /\ LET attempt == Len(rqLog) + 1
           next == AfterResponse(attempt, resp, DeleteExpected)
       IN  /\ rqLog' = Append(rqLog, resp)
           /\ IF next = "sleep"
              THEN /\ rqPc' = "sleep"
                   /\ rqSlept' = Append(rqSlept, BackoffDelay(attempt, resp))
                   /\ UNCHANGED <<rqOutcome, rqStats>>
              ELSE /\ rqPc' = "done"
                   /\ rqOutcome' = next
                   /\ rqStats' =
                        IF next = "return"
                        THEN [rqStats EXCEPT !.deleted = @ + 1]
                        ELSE record_failure(rqStats, ErrorText(next, resp), 1)
                   /\ UNCHANGED rqSlept
    /\ UNCHANGED <<rqGaps, chVars, nukeVars>>

\* asyncio.sleep(delay) returns after delay + jitter
RqWake(jitter) ==
    /\ rqPc = "sleep"
    /\ rqGaps' = Append(rqGaps, rqSlept[Len(rqSlept)] + jitter)
    /\ rqPc' = "send"
    /\ UNCHANGED <<rqLog, rqSlept, rqOutcome, rqStats, chVars, nukeVars>>

NextRequest ==
    \/ \E resp \in RqResponses : RqAttempt(resp)
    \/ \E jitter \in 0..MaxJitter : RqWake(jitter)

SpecRequest == InitRequest /\ [][NextRequest]_vars

(***************************************************************************)
(* SpecChunk: for batch in chunked(ids, size): create_task(...);           *)
(*            stats.batches += 1                                           *)
(***************************************************************************)
InitChunk ==
    /\ chItems \in SeqUpTo(Ids, MaxChunkItems)
    /\ chSize \in 1..MaxChunkSize
    /\ chI = 0 /\ chOut = <<>> /\ chBatches = 0
    /\ RqIdle /\ NukeIdle /\ ToolsIdle

\* one iteration: the generator yields items[i : i + size]
ChunkYield ==
    /\ chI < Len(chItems)
    /\ chOut' = Append(chOut, PySlice(chItems, chI, chI + chSize))
    /\ chBatches' = chBatches + 1
    /\ chI' = chI + chSize
    /\ UNCHANGED <<chItems, chSize, rqVars, nukeVars>>

NextChunk == ChunkYield

SpecChunk == InitChunk /\ [][NextChunk]_vars

(***************************************************************************)
(* Spec: run_nuke.                                                         *)
(*                                                                         *)
(* A listed item is [id, type_id, user_id, deleted]:                       *)
(*   id       the kind's identifier, resolved through the fallbacks the    *)
(*            code tries (task.task_id or task_id or id, case_id or id,    *)
(*            folder.id, document_id, company_id, ...); 0 when none is set *)
(*   type_id  document_type_id / company_type can be determined            *)
(*   user_id  the subject user id can be determined                        *)
(*   deleted  folder.deleted is True                                       *)
(***************************************************************************)
Items == [id : 0..MaxId, type_id : BOOLEAN, user_id : BOOLEAN, deleted : BOOLEAN]

\* the items a backend lists for a kind: the fields the kind's code does not
\* read are held fixed
ItemsOf(kind) ==
    CASE kind = "credentials" -> {it \in Items : ~it.deleted}
      [] kind = "companies" -> {it \in Items : it.user_id /\ ~it.deleted}
      [] kind = "sites" -> {it \in Items : it.type_id /\ it.user_id}
      [] OTHER -> {it \in Items : it.type_id /\ it.user_id /\ ~it.deleted}

TokenKinds == {"issues", "assets", "credentials", "companies", "sites"}
LinkKinds == {"inspections", "templates"}
ArchiveKinds == {"inspections", "assets", "templates"}

\* the largest page the backend returns for a kind
PageLimit(kind) ==
    CASE kind = "actions" -> ACTION_PAGE_SIZE
      [] kind = "osha_cases" -> OSHA_PAGE_SIZE
      [] OTHER -> MaxPageItems

\* URLs and paths are sequences of tokens; "http" and "/" are tokens
BaseUrl == <<"http", "api">>
NextPaths ==
    {<<>>, <<"/", "feed", "p2">>, <<"feed", "p2">>, <<"/", "/", "feed", "p2">>,
     <<"http", "cdn", "/", "feed", "p2">>}

\* build_next_page(base_url, next_path)
\* (the variant puts a slash before every relative path)
build_next_page_slashed(base_url, next_path) ==
    IF next_path = <<>> THEN <<>>
    ELSE IF Head(next_path) = "http" THEN next_path
    ELSE base_url \o <<"/">> \o next_path
build_next_page(base_url, next_path) ==
    IF next_path = <<>> THEN <<>>
    ELSE IF Head(next_path) = "http" THEN next_path
    ELSE base_url \o (IF Head(next_path) = "/" THEN next_path ELSE <<"/">> \o next_path)

\* a listing request as the backend sees it
ListReq(pn, tok, off, url) ==
    [page_number |-> pn, page_token |-> tok, offset |-> off, url |-> url]

\* a consumed page: the request it answers and the number of items it holds
Consumed(req, n) ==
    [page_number |-> req.page_number, page_token |-> req.page_token, n |-> n]

\* a listed item lacks an identifier the kind's delete call is made of
MissingIdentifiers(kind, it) ==
    CASE kind = "credentials" -> it.id = 0 \/ ~it.type_id \/ ~it.user_id
      [] kind = "companies" -> it.id = 0 \/ ~it.type_id
      [] OTHER -> it.id = 0

\* the backend's account of what it listed, after one more page: the number of
\* items, the number of them lacking an identifier, whether any page
\* carried a next_page_token, the next_page_token and the
\* metadata.next_page of this page, and, of assets, the ids listed
Listing(kind, items, tok, np) ==
    [n |-> listed.n + Len(items),
     incomplete |-> listed.incomplete
        + Len(SelectSeq(items, LAMBDA it : MissingIdentifiers(kind, it))),
     token |-> listed.token \/ tok # 0,
     last |-> tok,
     link |-> np,
     ids |-> IF kind = "assets"
             THEN listed.ids \cup ({items[k].id : k \in 1..Len(items)} \ {0})
             ELSE {}]

\* a task of delete_tasks: a deletion procedure for ids
\*   pc       "wait" (for delete_sem) | "archive" | "delete" | "done"
\*   attempt  attempts of the request in flight that were answered
\*   result   "none" | "deleted" | "failed"
\*   failedAt the request that raised: "none" | "archive" | "delete"
\*   why      what it raised on: "none" | "status" (a status that is not
\*            retried) | "retries" (the last attempt's transient response) |
\*            "timeout"
NewTask(ids, archive, typed) ==
    [ids |-> ids, archive |-> archive, typed |-> typed, pc |-> "wait",
     attempt |-> 0, result |-> "none", failedAt |-> "none", why |-> "none"]

\* the ids of the items that carry one, in order
IdsOf(items) ==
    LET sel == SelectSeq(items, LAMBDA it : it.id # 0)
    IN  [i \in 1..Len(sel) |-> sel[i].id]

\* delete_sites: folders with an id that are not deleted
SiteIdsOf(items) ==
    LET sel == SelectSeq(items, LAMBDA it : it.id # 0 /\ ~it.deleted)
    IN  [i \in 1..Len(sel) |-> sel[i].id]

\* delete_assets: the ids not in seen_ids, each once
\* (the variant does not look at seen_ids)
FreshIdsAll(items, sn) == IdsOf(items)
RECURSIVE FreshIds(_, _)
FreshIds(items, sn) ==
    IF items = <<>> THEN <<>>
    ELSE LET a == Head(items).id
         IN  IF a = 0 \/ a \in sn THEN FreshIds(Tail(items), sn)
             ELSE <<a>> \o FreshIds(Tail(items), sn \cup {a})

Range(q) == {q[i] : i \in 1..Len(q)}

\* delete_credentials: document_id and doc_type and user_id
\* (the variant does not look at user_id)
CredentialCompleteNoUser(it) == it.id # 0 /\ it.type_id
CredentialComplete(it) == it.id # 0 /\ it.type_id /\ it.user_id

\* What one listed page makes of a kind's loop body, up to the gather:
\*   fetched  the amount added to stats.fetched
\*   tasks    the tasks appended to delete_tasks
\*   batches  the amount added to stats.batches
\*   missing  the items recorded failed without a task
\*   seen     seen_ids afterwards
Dispatch(kind, items, sn) ==
    CASE kind = "actions" ->
           LET b == chunked(IdsOf(items), ACTION_DELETE_BATCH_SIZE)
           IN  [fetched |-> Len(IdsOf(items)),
                tasks |-> [k \in 1..Len(b) |-> NewTask(b[k], FALSE, TRUE)],
                batches |-> Len(b), missing |-> 0, seen |-> sn]
      [] kind = "sites" ->
           LET b == chunked(SiteIdsOf(items), SITE_DELETE_BATCH_SIZE)
           IN  [fetched |-> Len(SiteIdsOf(items)),
                tasks |-> [k \in 1..Len(b) |-> NewTask(b[k], FALSE, TRUE)],
                batches |-> Len(b), missing |-> 0, seen |-> sn]
      [] kind \in {"issues"} ->
           LET ids == IdsOf(items)
           IN  [fetched |-> Len(ids),
                tasks |-> [k \in 1..Len(ids) |-> NewTask(<<ids[k]>>, FALSE, TRUE)],
                batches |-> 0, missing |-> 0, seen |-> sn]
      [] kind \in {"inspections", "templates"} ->
           LET ids == IdsOf(items)
           IN  [fetched |-> Len(items),
                tasks |-> [k \in 1..Len(ids) |-> NewTask(<<ids[k]>>, TRUE, TRUE)],
                batches |-> 0, missing |-> 0, seen |-> sn]
      [] kind = "osha_cases" ->
           LET ids == IdsOf(items)
           IN  [fetched |-> Len(items),
                tasks |-> [k \in 1..Len(ids) |-> NewTask(<<ids[k]>>, FALSE, TRUE)],
                batches |-> 0, missing |-> 0, seen |-> sn]
      [] kind = "assets" ->
           LET ids == FreshIds(items, sn)
           IN  [fetched |-> Len(ids),
                tasks |-> [k \in 1..Len(ids) |-> NewTask(<<ids[k]>>, TRUE, TRUE)],
                batches |-> 0, missing |-> 0, seen |-> sn \cup Range(ids)]
      [] kind = "credentials" ->
           LET ok == SelectSeq(items, CredentialComplete)
           IN  [fetched |-> Len(items),
                tasks |-> [k \in 1..Len(ok) |-> NewTask(<<ok[k].id>>, FALSE, TRUE)],
                batches |-> 0, missing |-> Len(items) - Len(ok), seen |-> sn]
      [] kind = "companies" ->
           LET ok == SelectSeq(items, LAMBDA it : it.id # 0)
           IN  [fetched |-> Len(items),
                tasks |-> [k \in 1..Len(ok) |->
                             NewTask(<<ok[k].id>>, FALSE, ok[k].type_id)],
                batches |-> 0, missing |-> 0, seen |-> sn]

\* the failures recorded for items missing identifiers, one call each
RECURSIVE RecordMissing(_, _)
RecordMissing(st, n) ==
    IF n = 0 THEN st
    ELSE RecordMissing(record_failure(st, "missing identifiers", 1), n - 1)

\* stats after a page was listed and its tasks created
\* (the variant leaves the page out of fetched)
AfterPageUncounted(st, d) ==
    RecordMissing([st EXCEPT !.batches = @ + d.batches], d.missing)
AfterPage(st, d) ==
    RecordMissing([st EXCEPT !.fetched = @ + d.fetched, !.batches = @ + d.batches],
                  d.missing)

\* delete_sem: the tasks inside "async with self.delete_sem"
Held == Cardinality({i \in 1..Len(tasks) : tasks[i].pc \in {"archive", "delete"}})

\* asyncio.Semaphore(delete_concurrency).acquire() does not block
\* (the variant lets one procedure too many in)
CanAcquireLoose == Held <= limits.gate
CanAcquire == Held < limits.gate

\* asyncio.gather(*delete_tasks) has every result
\* (the variant returns with the first one)
AllDoneFirst == \E i \in 1..Len(tasks) : tasks[i].pc = "done"
AllDone == \A i \in 1..Len(tasks) : tasks[i].pc = "done"

\* the index of the next target not in skip_resources, after position i
\* (the variant does not look at skip_resources)
NextIdxAll(i) == IF i + 1 > Len(Targets) THEN NoKind ELSE i + 1
NextIdx(i) ==
    LET later == {j \in (i + 1)..Len(Targets) : Targets[j] \notin skip}
    IN  IF later = {} THEN NoKind ELSE CHOOSE j \in later : \A k \in later : j <= k

\* delete_osha_cases, the condition of the inner while
\* (the variant starts one fetch too many)
FillMoreOver(fl, tm) == Len(fl) <= LIST_CONCURRENCY /\ ~tm
FillMore(fl, tm) == Len(fl) < LIST_CONCURRENCY /\ ~tm

\* delete_osha_cases, the inner while: page fetches are started until
\* list_concurrency of them are in in_flight (none in token mode)
RECURSIVE Fill(_, _, _)
Fill(fl, pn, tm) ==
    IF FillMore(fl, tm)
    THEN LET r == Fill(Append(fl, [page |-> pn, st |-> "pending"]), pn + 1, tm)
         IN  [fl |-> r.fl, pn |-> r.pn, reqs |-> <<ListReq(pn, 0, 0, <<>>)>> \o r.reqs]
    ELSE [fl |-> fl, pn |-> pn, reqs |-> <<>>]

\* the first lines of a delete method, up to its first await: the first
\* listing request (delete_osha_cases: the first page fetches) is issued
StartKind(kind) ==
    /\ stats' = NewStats(kind)
    /\ tasks' = <<>>
    /\ pageNo' = 0 /\ pageToken' = 0 /\ pass' = 1 /\ seen' = {} /\ data' = NoData
    /\ tokenMode' = FALSE /\ nextToken' = 0
    /\ processed' = <<>> /\ listed' = NoneListed
    /\ delCalls' = [i \in Ids |-> 0] /\ only404' = TRUE
    /\ nextUrl' = IF kind \in LinkKinds THEN BaseUrl \o <<"/", "feed">> ELSE <<>>
    /\ IF kind = "osha_cases"
       THEN LET f == Fill(<<>>, 1, FALSE)
            IN  /\ awaited' = Head(f.fl)
                /\ inFlight' = Tail(f.fl)
                /\ pageNumber' = f.pn
                /\ listLog' = f.reqs
                /\ kpc' = "await_page"
       ELSE /\ UNCHANGED <<awaited, inFlight, pageNumber>>
            /\ listLog' = <<ListReq(0, 0, 0,
                                     IF kind \in LinkKinds
                                     THEN BaseUrl \o <<"/", "feed">> ELSE <<>>)>>
            /\ kpc' = "list"

\* The locals of a kind's loop at the end of its body:
\* [stats, seen, data, pageNo], with the backend's [processed, listed]
Locals ==
    [stats |-> stats, seen |-> seen, data |-> data, pageNo |-> pageNo,
     processed |-> processed, listed |-> listed]

\* the for loop of run_nuke moves on from target i, whose method returned
\* with the locals c (at the prompt: nothing returned yet)
Advance(i, c) ==
    LET j == NextIdx(i)
    IN  /\ idx' = j
        /\ IF j = NoKind
           THEN /\ runPc' = "summary"
                /\ stats' = c.stats /\ kpc' = "idle" /\ tasks' = <<>>
                /\ processed' = c.processed /\ listed' = c.listed
                /\ UNCHANGED <<cursorVars, oshaVars, listLog, delCalls, only404>>
           ELSE /\ runPc' = "processing"
                /\ StartKind(Targets[j])

ConfirmInputs == {"NUKE", "nuke", " NUKE ", "", "no"}
Strip(x) == IF x = " NUKE " THEN "NUKE" ELSE x
Upper(x) == CASE x = "nuke" -> "NUKE" [] x = "no" -> "NO" [] OTHER -> x

Planned == {k \in Kinds : k \notin skip}

\* a run started with --yes
Init ==
    /\ yes = TRUE
    /\ skip \in {sk \in SUBSET Kinds : Cardinality(Kinds \ sk) <= MaxPlanned}
    /\ confirm = "" /\ runPc = "confirm" /\ idx = 0
    /\ summaries = <<>> /\ printed = <<>>
    /\ KindIdle
    /\ DeepBackend
    /\ RqIdle /\ ChIdle /\ ToolsIdle

\* args.yes: no prompt
ConfirmBypass ==
    /\ runPc = "confirm" /\ yes
    /\ Advance(0, Locals)
    /\ UNCHANGED <<yes, skip, confirm, summaries, printed, rqVars, chVars, envVars>>

\* the prompt: input(...).strip(), compared through upper()
ConfirmTyped(line) ==
    /\ runPc = "confirm" /\ ~yes
    /\ confirm' = Strip(line)
    /\ IF Upper(Strip(line)) # "NUKE"
       THEN /\ runPc' = "aborted"
            /\ UNCHANGED <<idx, kindVars>>
       ELSE Advance(0, Locals)
    /\ UNCHANGED <<yes, skip, summaries, printed, rqVars, chVars, envVars>>

\* the method returns c.stats: run_nuke appends it and goes on
\* (the variant has one ResourceStats object for every kind, so that the
\* stats returned earlier are the latest ones too)
ReturnShared(c) ==
    /\ summaries' = [i \in 1..(Len(summaries) + 1) |-> c.stats]
    /\ Advance(idx, c)
    /\ UNCHANGED <<yes, skip, confirm, printed, rqVars, chVars, envVars>>
Return(c) ==
    /\ summaries' = Append(summaries, c.stats)
    /\ Advance(idx, c)
    /\ UNCHANGED <<yes, skip, confirm, printed, rqVars, chVars, envVars>>

\* the loop goes round: the next listing request is issued
\* (the variant sends the page_token of the request before once more)
NextListStale(c, ps, pn, tok, url, off) ==
    /\ stats' = c.stats /\ seen' = c.seen /\ pass' = ps /\ pageNo' = pn
    /\ processed' = c.processed /\ listed' = c.listed
    /\ pageToken' = pageToken /\ nextUrl' = url
    /\ kpc' = "list" /\ tasks' = <<>> /\ data' = NoData
    /\ listLog' = Append(listLog, ListReq(0, pageToken, off, url))
    /\ UNCHANGED <<runVars, oshaVars, delCalls, only404, rqVars, chVars, envVars>>
NextList(c, ps, pn, tok, url, off) ==
    /\ stats' = c.stats /\ seen' = c.seen /\ pass' = ps /\ pageNo' = pn
    /\ processed' = c.processed /\ listed' = c.listed
    /\ pageToken' = tok /\ nextUrl' = url
    /\ kpc' = "list" /\ tasks' = <<>> /\ data' = NoData
    /\ listLog' = Append(listLog, ListReq(0, tok, off, url))
    /\ UNCHANGED <<runVars, oshaVars, delCalls, only404, rqVars, chVars, envVars>>

\* the end of the loop body of a sequentially paginated kind, once the page's
\* tasks are gathered: the cursor moves, the loop breaks or goes round
AfterDrain(kind, c) ==
    CASE kind = "actions" ->
           IF c.data.n < ACTION_PAGE_SIZE THEN Return(c)
           ELSE NextList(c, pass, c.pageNo, 0, <<>>, c.pageNo * ACTION_PAGE_SIZE)
      [] kind = "assets" ->
           IF c.data.token # 0 THEN NextList(c, pass, c.pageNo, c.data.token, <<>>, 0)
           ELSE IF pass = 1 THEN NextList(c, 2, 0, 0, <<>>, 0)
           ELSE Return(c)
      [] kind \in TokenKinds \ {"assets"} ->
           IF c.data.token # 0 THEN NextList(c, pass, c.pageNo, c.data.token, <<>>, 0)
           ELSE Return(c)
      [] kind \in LinkKinds ->
           LET url == build_next_page(BaseUrl, c.data.next_page)
           IN  IF url # <<>> THEN NextList(c, pass, c.pageNo, 0, url, 0)
               ELSE Return(c)

Kind == IF idx \in 1..Len(Targets) THEN Targets[idx] ELSE "none"
Sequential == runPc = "processing" /\ Kind # "osha_cases"

\* the pages a backend may answer a listing request of the kind with
Pages(kind) == SeqUpTo(ItemsOf(kind), PageLimit(kind))
TokensOf(kind) == IF kind \in TokenKinds THEN 0..MaxToken ELSE {0}
PathsOf(kind) == IF kind \in LinkKinds THEN NextPaths ELSE {<<>>}

\* the listing request is answered (retries included) with a page; the
\* backend's listing ends with the page numbered limits.pages at the latest
ListPage(items, tok, np) ==
    /\ pageNo + 1 >= limits.pages =>
         /\ tok = 0 /\ np = <<>>
         /\ Kind = "actions" => Len(items) < ACTION_PAGE_SIZE
    /\ LET d == Dispatch(Kind, items, seen)
           c == [stats |-> AfterPage(stats, d), seen |-> d.seen,
                 data |-> [token |-> tok, next_page |-> np, n |-> Len(items)],
                 pageNo |-> pageNo + 1,
                 processed |-> Append(processed,
                                      Consumed(listLog[Len(listLog)], Len(items))),
                 listed |-> Listing(Kind, items, tok, np)]
       IN  IF d.tasks = <<>>
           THEN AfterDrain(Kind, c)
           ELSE /\ stats' = c.stats /\ seen' = c.seen /\ data' = c.data
                /\ pageNo' = c.pageNo /\ processed' = c.processed
                /\ listed' = c.listed
                /\ tasks' = d.tasks /\ kpc' = "gather"
                /\ UNCHANGED <<runVars, pageToken, nextUrl, pass, oshaVars, listLog,
                               delCalls, only404, rqVars, chVars, envVars>>

ListResponse ==
    /\ Sequential /\ kpc = "list"
    /\ \E items \in Pages(Kind) : \E tok \in TokensOf(Kind) : \E np \in PathsOf(Kind) :
         ListPage(items, tok, np)

\* the listing request raises (a status that is not retried, retries used
\* up, a timeout): nothing in the method or in run_nuke catches it
ListFail ==
    /\ Sequential /\ kpc = "list"
    /\ runPc' = "crashed"
    /\ UNCHANGED <<yes, skip, confirm, idx, summaries, printed, kindVars, rqVars, chVars, envVars>>

\* asyncio.gather(*delete_tasks) returns; delete_tasks.clear()
\* (the variant gives the kind up once a deletion of it has failed)
GatherUnlessFailed ==
    /\ Sequential /\ kpc = "gather" /\ AllDone
    /\ IF stats.failed > 0 THEN Return(Locals) ELSE AfterDrain(Kind, Locals)
\* (the variant does not await the tasks)
GatherNoWait ==
    /\ Sequential /\ kpc = "gather"
    /\ AfterDrain(Kind, Locals)
Gather ==
    /\ Sequential /\ kpc = "gather" /\ AllDone
    /\ AfterDrain(Kind, Locals)

(***************************************************************************)
(* delete_osha_cases: page-number fetches kept in flight, then page tokens *)
(***************************************************************************)
InOsha == runPc = "processing" /\ Kind = "osha_cases"

\* a page fetch left in in_flight, or the one awaited, is answered
FetchDone(i) ==
    /\ runPc = "processing" /\ inFlight[i].st = "pending"
    /\ inFlight' = [inFlight EXCEPT ![i].st = "done"]
    /\ UNCHANGED <<runVars, stats, kpc, tasks, cursorVars, awaited, pageNumber,
                   tokenMode, nextToken, backendVars, rqVars, chVars, envVars>>

AwaitedDone ==
    /\ runPc = "processing" /\ awaited.st = "pending"
    /\ awaited' = [awaited EXCEPT !.st = "done"]
    /\ UNCHANGED <<runVars, stats, kpc, tasks, cursorVars, inFlight, pageNumber,
                   tokenMode, nextToken, backendVars, rqVars, chVars, envVars>>

\* "if token_mode and next_token": the request with page_token is issued
OshaTokenRequest(c, nt, tm) ==
    /\ stats' = c.stats /\ processed' = c.processed /\ listed' = c.listed
    /\ nextToken' = nt /\ tokenMode' = tm
    /\ awaited' = NoFetch
    /\ kpc' = IF tm /\ nt # 0 THEN "token_req" ELSE "spin"
    /\ listLog' = IF tm /\ nt # 0 THEN Append(listLog, ListReq(0, nt, 0, <<>>))
                  ELSE listLog
    /\ tasks' = <<>> /\ data' = NoData
    /\ UNCHANGED <<runVars, pageNo, pageToken, nextUrl, pass, seen, inFlight,
                   pageNumber, delCalls, only404, rqVars, chVars, envVars>>

\* the top of the outer loop: fill in_flight, break, or await its first task
OshaLoop(c, nt, tm) ==
    LET f == Fill(inFlight, pageNumber, tm)
    IN  IF f.fl = <<>> /\ ~tm THEN Return(c)
        ELSE IF f.fl # <<>>
        THEN /\ stats' = c.stats /\ processed' = c.processed /\ listed' = c.listed
             /\ nextToken' = nt /\ tokenMode' = tm
             /\ awaited' = Head(f.fl) /\ inFlight' = Tail(f.fl)
             /\ pageNumber' = f.pn
             /\ listLog' = listLog \o f.reqs
             /\ kpc' = "await_page" /\ tasks' = <<>> /\ data' = NoData
             /\ UNCHANGED <<runVars, pageNo, pageToken, nextUrl, pass, seen,
                            delCalls, only404, rqVars, chVars, envVars>>
        ELSE OshaTokenRequest(c, nt, tm)

\* after the tasks of a page-number page are gathered
\* (the variant has no break on a short page without a token)
OshaAfterPageNoBreak(c) ==
    LET nt == IF c.data.token # 0 THEN c.data.token ELSE nextToken
        stop == c.data.n < OSHA_PAGE_SIZE \/ awaited.page >= OSHA_MAX_PAGE_NUMBER
        tm == IF stop THEN nt # 0 ELSE tokenMode
    IN  IF tm /\ nt # 0 THEN OshaTokenRequest(c, nt, tm)
        ELSE OshaLoop(c, nt, tm)
OshaAfterPage(c) ==
    LET nt == IF c.data.token # 0 THEN c.data.token ELSE nextToken
        stop == c.data.n < OSHA_PAGE_SIZE \/ awaited.page >= OSHA_MAX_PAGE_NUMBER
        tm == IF stop THEN nt # 0 ELSE tokenMode
    IN  IF stop /\ ~tm /\ c.data.n < OSHA_PAGE_SIZE THEN Return(c)
        ELSE IF tm /\ nt # 0 THEN OshaTokenRequest(c, nt, tm)
        ELSE OshaLoop(c, nt, tm)

\* after the tasks of a token page are gathered
\* (the variant has no break on a response without a token)
OshaAfterTokenNoBreak(c) == OshaLoop(c, c.data.token, tokenMode)
OshaAfterToken(c) ==
    IF c.data.token = 0 THEN Return(c)
    ELSE OshaLoop(c, c.data.token, tokenMode)

\* a page is consumed: its cases are counted and dispatched
OshaConsume(req, cases, tok, after) ==
    LET d == Dispatch("osha_cases", cases, seen)
        c == [stats |-> AfterPage(stats, d), seen |-> seen,
              data |-> [token |-> tok, next_page |-> <<>>, n |-> Len(cases)],
              pageNo |-> pageNo,
              processed |-> Append(processed, Consumed(req, Len(cases))),
              listed |-> Listing("osha_cases", cases, tok, <<>>)]
    IN  IF d.tasks = <<>>
        THEN IF after = "gather_pn" THEN OshaAfterPage(c) ELSE OshaAfterToken(c)
        ELSE /\ stats' = c.stats /\ data' = c.data /\ processed' = c.processed
             /\ listed' = c.listed
             /\ tasks' = d.tasks /\ kpc' = after
             /\ UNCHANGED <<runVars, pageNo, pageToken, nextUrl, pass, seen, oshaVars,
                            listLog, delCalls, only404, rqVars, chVars, envVars>>

\* "data = await task" returns the page of the first fetch of in_flight; the
\* OSHA listing holds no case past page limits.osha
OshaPage ==
    /\ InOsha /\ kpc = "await_page" /\ awaited.st = "done"
    /\ \E cases \in Pages("osha_cases") : \E tok \in 0..MaxToken :
         /\ awaited.page > limits.osha => cases = <<>>
         /\ OshaConsume(ListReq(awaited.page, 0, 0, <<>>), cases, tok, "gather_pn")

\* the request with page_token is answered; the token chain ends after
\* limits.pages token pages at the latest
TokenRequests ==
    Cardinality({i \in 1..Len(listLog) : listLog[i].page_token # 0})

OshaTokenPage ==
    /\ InOsha /\ kpc = "token_req"
    /\ \E cases \in Pages("osha_cases") : \E tok \in 0..MaxToken :
         /\ TokenRequests >= limits.pages => tok = 0
         /\ OshaConsume(ListReq(0, nextToken, 0, <<>>), cases, tok, "gather_tok")

\* the awaited fetch, or the token request, raised
OshaListFail ==
    /\ InOsha
    /\ \/ kpc = "await_page" /\ awaited.st = "done"
       \/ kpc = "token_req"
    /\ runPc' = "crashed"
    /\ UNCHANGED <<yes, skip, confirm, idx, summaries, printed, kindVars, rqVars, chVars, envVars>>

OshaGather ==
    /\ InOsha /\ kpc \in {"gather_pn", "gather_tok"} /\ AllDone
    /\ IF kpc = "gather_pn" THEN OshaAfterPage(Locals) ELSE OshaAfterToken(Locals)

(***************************************************************************)
(* The deletion procedures: _delete_single, _delete_with_params,           *)
(* _delete_actions_batch, _delete_site_batch.                              *)
(***************************************************************************)
DeleteResponses ==
    {Http(204, 0), Http(404, 0), Http(409, 0), Http(429, 0), Http(503, 0),
     ConnFail, TimedOut}

\* the delete request for ids reaches the backend
Called(calls, ids) ==
    [i \in Ids |-> IF i \in Range(ids) THEN Min(calls[i] + 1, 2) ELSE calls[i]]

\* stats.deleted += len(ids)
\* (the variant writes back the count it read before the procedure began)
OnDeletedLost(st, t) == st
OnDeleted(st, t) == [st EXCEPT !.deleted = @ + Len(t.ids)]

\* except Exception: stats.record_failure(message, len(ids))
\* (the variant records one failure whatever the batch length)
OnFailedOne(st, t) == record_failure(st, "failed", 1)
OnFailed(st, t) == record_failure(st, "failed", Len(t.ids))

\* why _request_json raised on its last response
Cause(resp) ==
    IF resp.kind = "TimeoutError" THEN "timeout"
    ELSE IF resp.kind = "ClientError" \/ resp.status \in RETRY_STATUS_CODES THEN "retries"
    ELSE "status"

\* async with self.delete_sem: the task enters and issues its first request
\* (the variant issues the delete request first, whatever archive_path is)
TaskAcquireNoArchive(i) ==
    /\ tasks[i].pc = "wait" /\ CanAcquire
    /\ tasks' = [tasks EXCEPT ![i].pc = "delete"]
    /\ delCalls' = Called(delCalls, tasks[i].ids)
    /\ UNCHANGED <<runVars, stats, kpc, cursorVars, oshaVars, listLog, processed,
                   listed, only404, rqVars, chVars, envVars>>
TaskAcquire(i) ==
    /\ tasks[i].pc = "wait" /\ CanAcquire
    /\ tasks' = [tasks EXCEPT ![i].pc = IF tasks[i].archive THEN "archive" ELSE "delete"]
    /\ delCalls' = IF tasks[i].archive THEN delCalls ELSE Called(delCalls, tasks[i].ids)
    /\ UNCHANGED <<runVars, stats, kpc, cursorVars, oshaVars, listLog, processed,
                   listed, only404, rqVars, chVars, envVars>>

\* one attempt of the task's request is answered; a backoff sleep, if any,
\* is part of the step
TaskAnswered(i, resp) ==
    /\ tasks[i].pc \in {"archive", "delete"}
    /\ LET t == tasks[i]
           a == t.attempt + 1
           next == AfterResponse(a, resp, DeleteExpected)
       IN  /\ only404' = (only404 /\ resp = Http(404, 0))
           /\ CASE next = "sleep" ->
                     /\ tasks' = [tasks EXCEPT ![i].attempt = a]
                     /\ UNCHANGED <<stats, delCalls>>
                [] next = "return" /\ t.pc = "archive" ->
                     /\ tasks' = [tasks EXCEPT ![i].pc = "delete", ![i].attempt = 0]
                     /\ delCalls' = Called(delCalls, t.ids)
                     /\ UNCHANGED stats
                [] next = "return" /\ t.pc = "delete" ->
                     /\ tasks' = [tasks EXCEPT ![i].pc = "done", ![i].attempt = 0,
                                               ![i].result = "deleted"]
                     /\ stats' = OnDeleted(stats, t)
                     /\ UNCHANGED delCalls
                [] OTHER ->
                     /\ tasks' = [tasks EXCEPT ![i].pc = "done", ![i].attempt = 0,
                                               ![i].result = "failed",
                                               ![i].failedAt = t.pc,
                                               ![i].why = Cause(resp)]
                     /\ stats' = OnFailed(stats, t)
                     /\ UNCHANGED delCalls
    /\ UNCHANGED <<runVars, kpc, cursorVars, oshaVars, listLog, processed, listed,
                   rqVars, chVars>>

\* the same, against a backend the model keeps no account of
TaskResponse(i, resp) == TaskAnswered(i, resp) /\ UNCHANGED envVars

(***************************************************************************)
(* The final summary.                                                      *)
(***************************************************************************)
\* the line of the final summary for the stats of a kind
\* (the variant tells "none to delete" by the deleted count)
SummaryLineByDeleted(st) ==
    IF st.deleted = 0
    THEN [name |-> st.name, text |-> "none to delete", deleted |-> 0, fetched |-> 0,
          failed |-> 0, batches |-> 0]
    ELSE [name |-> st.name, text |-> "deleted", deleted |-> st.deleted,
          fetched |-> st.fetched, failed |-> st.failed, batches |-> st.batches]
SummaryLine(st) ==
    IF st.fetched = 0
    THEN [name |-> st.name, text |-> "none to delete", deleted |-> 0, fetched |-> 0,
          failed |-> 0, batches |-> 0]
    ELSE [name |-> st.name, text |-> "deleted", deleted |-> st.deleted,
          fetched |-> st.fetched, failed |-> st.failed, batches |-> st.batches]

Summarize ==
    /\ runPc = "summary"
    /\ printed' = [i \in 1..Len(summaries) |-> SummaryLine(summaries[i])]
    /\ runPc' = "done"
    /\ UNCHANGED <<yes, skip, confirm, idx, summaries, kindVars, rqVars, chVars, envVars>>

Acquire == \E i \in 1..Len(tasks) : TaskAcquire(i)
Respond == \E i \in 1..Len(tasks) : \E resp \in DeleteResponses : TaskResponse(i, resp)

Next ==
    \/ ConfirmBypass
    \/ ListResponse
    \/ ListFail
    \/ Gather
    \/ \E i \in 1..Len(inFlight) : FetchDone(i)
    \/ AwaitedDone
    \/ OshaPage
    \/ OshaTokenPage
    \/ OshaListFail
    \/ OshaGather
    \/ Acquire
    \/ Respond
    \/ Summarize

Spec == Init /\ [][Next]_vars

(***************************************************************************)
(* SpecRun: run_nuke from the prompt on, with or without --yes, over up to *)
(* MaxRunPlanned kinds, against a backend whose listings are short.        *)
(***************************************************************************)
ShallowBackend ==
    /\ limits = [pages |-> MaxRunPages, osha |-> MaxRunPages,
                 gate |-> DELETE_CONCURRENCY]
    /\ remaining = <<>>

InitRun ==
    /\ yes \in BOOLEAN
    /\ skip \in {sk \in SUBSET Kinds : Cardinality(Kinds \ sk) <= MaxRunPlanned}
    /\ confirm = "" /\ runPc = "confirm" /\ idx = 0
    /\ summaries = <<>> /\ printed = <<>>
    /\ KindIdle
    /\ ShallowBackend
    /\ RqIdle /\ ChIdle /\ ToolsIdle

NextRun ==
    \/ \E line \in ConfirmInputs : ConfirmTyped(line)
    \/ Next

SpecRun == InitRun /\ [][NextRun]_vars

(***************************************************************************)
(* SpecActions: run_nuke over delete_actions alone, every call succeeding, *)
(* against a backend that holds a list of actions, answers a listing       *)
(* request with the actions at the requested offset, and no longer lists   *)
(* an action once it is deleted.                                           *)
(***************************************************************************)
\* the lists of distinct actions a backend may hold
ActionLists ==
    {q \in SeqUpTo(1..MaxActions, MaxActions) :
        \A k \in 1..Len(q) : \A l \in 1..Len(q) : k # l => q[k] # q[l]}

InitActions ==
    /\ yes = TRUE /\ skip = Kinds \ {"actions"}
    /\ confirm = "" /\ runPc = "confirm" /\ idx = 0
    /\ summaries = <<>> /\ printed = <<>>
    /\ KindIdle
    /\ limits = [pages |-> MaxActions + 1, osha |-> 0, gate |-> DELETE_CONCURRENCY]
    /\ remaining \in ActionLists
    /\ RqIdle /\ ChIdle /\ ToolsIdle

\* the actions the backend lists for offset: page_size of them from there on
ActionsAt(offset) ==
    LET ids == PySlice(remaining, offset, offset + ACTION_PAGE_SIZE)
    IN  [k \in 1..Len(ids) |->
            [id |-> ids[k], type_id |-> TRUE, user_id |-> TRUE, deleted |-> FALSE]]

\* the listing request is answered
ActionsListed ==
    /\ Sequential /\ Kind = "actions" /\ kpc = "list"
    /\ ListPage(ActionsAt(listLog[Len(listLog)].offset), 0, <<>>)

\* the bulk-delete call of a batch succeeds: the backend drops its actions
ActionsDeleted ==
    \E i \in 1..Len(tasks) :
        /\ tasks[i].pc = "delete"
        /\ TaskAnswered(i, Http(204, 0))
        /\ remaining' = SelectSeq(remaining, LAMBDA a : a \notin Range(tasks[i].ids))
        /\ UNCHANGED <<limits, toolVars>>

NextActions ==
    \/ ConfirmBypass
    \/ ActionsListed
    \/ Acquire
    \/ ActionsDeleted
    \/ Gather
    \/ Summarize

SpecActions == InitActions /\ [][NextActions]_vars

(***************************************************************************)
(* SpecStream: actions/delete_action_schedules, stream_actions_offset      *)
(* consumed by collect_pairs_from_api, against a backend that holds        *)
(* stream.held actions and lists them by offset.                           *)
(*   in_flight  the fetches not yet awaited, as [offset, st], st being     *)
(*              "pending" or "done" (answered)                             *)
(*   awaited    the fetch popped from in_flight and awaited                *)
(*   requested  the offsets of the fetches created, in order               *)
(*   yielded    the pages yielded, as [page_number, offset, n]             *)
(***************************************************************************)
InitStream ==
    /\ stream \in {[NoStream EXCEPT !.pc = "start", !.held = h] :
                      h \in 0..MaxStreamActions}
    /\ RqIdle /\ ChIdle /\ NukeIdle /\ AssetsIdle /\ UnarchiveIdle

\* the actions the backend lists at an offset
StreamPageAt(held, offset) ==
    IF held - offset >= PAGE_SIZE THEN PAGE_SIZE
    ELSE IF held - offset > 0 THEN held - offset ELSE 0

\* the condition of the inner while
\* (the variant starts one fetch too many)
StreamFillMoreOver(st) ==
    Len(st.in_flight) <= SCHEDULES_LIST_CONCURRENCY /\ ~st.exhausted
StreamFillMore(st) ==
    Len(st.in_flight) < SCHEDULES_LIST_CONCURRENCY /\ ~st.exhausted

\* "Keep the pipeline full"
RECURSIVE StreamFill(_)
StreamFill(st) ==
    IF StreamFillMore(st)
    THEN StreamFill([st EXCEPT
            !.in_flight = Append(@, [offset |-> st.offset, st |-> "pending"]),
            !.requested = Append(@, st.offset),
            !.offset = @ + PAGE_SIZE])
    ELSE st

\* the body of the outer while up to "await task": the pipeline is filled,
\* the generator ends when nothing is in flight, else the first fetch of
\* in_flight is popped and awaited
StreamLoop(st) ==
    LET f == StreamFill(st)
    IN  IF f.in_flight = <<>>
        THEN [f EXCEPT !.pc = "ended", !.awaited = NoStream.awaited]
        ELSE [f EXCEPT !.pc = "await", !.awaited = Head(f.in_flight),
                       !.in_flight = Tail(f.in_flight)]

StreamUnchanged ==
    UNCHANGED <<rqVars, chVars, runVars, kindVars, limits, remaining, assetRun,
                unarchive, resume>>

\* async for ... in client.stream_actions_offset(): the generator starts
StreamStart ==
    /\ stream.pc = "start"
    /\ stream' = StreamLoop(stream)
    /\ StreamUnchanged

\* a fetch left in in_flight is answered
StreamFetchDone(i) ==
    /\ stream.in_flight[i].st = "pending"
    /\ stream' = [stream EXCEPT !.in_flight[i].st = "done"]
    /\ StreamUnchanged

\* the fetch awaited is answered
StreamAwaitedDone ==
    /\ stream.pc = "await" /\ stream.awaited.st = "pending"
    /\ stream' = [stream EXCEPT !.awaited.st = "done"]
    /\ StreamUnchanged

\* "page_data = await task" returns: the page is yielded, the consumer takes
\* it and asks for the next one, a short page sets exhausted, and the loop
\* goes round
StreamYield ==
    /\ stream.pc = "await" /\ stream.awaited.st = "done"
    /\ LET n == StreamPageAt(stream.held, stream.awaited.offset)
           y == [stream EXCEPT
                   !.page_number = @ + 1,
                   !.yielded = Append(@, [page_number |-> stream.page_number + 1,
                                          offset |-> stream.awaited.offset,
                                          n |-> n]),
                   !.exhausted = IF n < PAGE_SIZE THEN TRUE ELSE @]
       IN  stream' = StreamLoop(y)
    /\ StreamUnchanged

\* "await task" raises the RuntimeError of fetch_actions_page
StreamRaise ==
    /\ stream.pc = "await" /\ stream.awaited.st = "done"
    /\ stream' = [stream EXCEPT !.pc = "raised"]
    /\ StreamUnchanged

NextStream ==
    \/ StreamStart
    \/ \E i \in 1..Len(stream.in_flight) : StreamFetchDone(i)
    \/ StreamAwaitedDone
    \/ StreamYield
    \/ StreamRaise

SpecStream == InitStream /\ [][NextStream]_vars

(***************************************************************************)
(* SpecAssets: assets/delete_assets, archive_and_delete_assets over the    *)
(* deduplicated assets main hands it.                                      *)
(*   assets    the assets, as [id, archived]                               *)
(*   start     the index (from 0) of the first asset of the chunk          *)
(*   tasks     the calls gathered, as [id, st, attempt]; st is "waiting"   *)
(*             (for the semaphore), "running", "success", "error" (the     *)
(*             call returned a row) or "raised" (it raised)                *)
(*   archives, deletes   per asset id, the archive_asset and delete_asset  *)
(*             calls made                                                  *)
(*   log       the rows written, as [id, op, status]                       *)
(***************************************************************************)
AssetLists ==
    {a \in UNION {[1..n -> [id : 1..MaxAssets, archived : BOOLEAN]] :
                     n \in 1..MaxAssets} :
        \A k \in 1..Len(a) : a[k].id = k}

InitAssets ==
    /\ assetRun \in {[NoAssetRun EXCEPT
                          !.pc = "start", !.assets = a,
                          !.archives = [k \in 1..Len(a) |-> 0],
                          !.deletes = [k \in 1..Len(a) |-> 0]] :
                        a \in AssetLists}
    /\ RqIdle /\ ChIdle /\ NukeIdle /\ StreamIdle /\ UnarchiveIdle

\* chunk = assets[start : start + 200], as indexes from 1
AssetChunk(st) ==
    {k \in 1..Len(st.assets) : st.start < k /\ k <= st.start + ASSET_CHUNK}

\* the calls of a gather, in chunk order
RECURSIVE AssetTasks(_, _, _)
AssetTasks(st, k, ids) ==
    IF k > Len(st.assets) THEN <<>>
    ELSE (IF k \in ids THEN <<[id |-> st.assets[k].id, st |-> "waiting", attempt |-> 0]>>
          ELSE <<>>) \o AssetTasks(st, k + 1, ids)

\* "Step 2": a delete_asset call for every asset of the chunk
AssetDeletePhase(st) ==
    [st EXCEPT !.pc = "delete",
               !.tasks = AssetTasks(st, 1, AssetChunk(st)),
               !.deletes = [k \in DOMAIN @ |->
                              IF k \in AssetChunk(st) THEN @[k] + 1 ELSE @[k]]]

\* the top of the for loop: past the last chunk the function returns; else
\* "Step 1" makes an archive_asset call for every asset of the chunk whose
\* state is not ASSET_STATE_ARCHIVED, and with none to make goes on to
\* "Step 2"
AssetChunkTop(st) ==
    IF st.start >= Len(st.assets) THEN [st EXCEPT !.pc = "done", !.tasks = <<>>]
    ELSE LET active == {k \in AssetChunk(st) : ~st.assets[k].archived}
             t == [st EXCEPT
                     !.archive_skipped =
                         @ + Cardinality(AssetChunk(st) \ active),
                     !.archives = [k \in DOMAIN @ |->
                                     IF k \in active THEN @[k] + 1 ELSE @[k]]]
         IN  IF active # {}
             THEN [t EXCEPT !.pc = "archive", !.tasks = AssetTasks(st, 1, active)]
             ELSE AssetDeletePhase(t)

\* the rows of the results gathered, and the counters they move
RECURSIVE AssetRows(_, _, _)
AssetRows(st, op, i) ==
    IF i > Len(st.tasks) THEN st
    ELSE AssetRows(
            [st EXCEPT
               !.log = Append(@, [id |-> st.tasks[i].id, op |-> op,
                                  status |-> st.tasks[i].st]),
               !.archive_successes =
                   IF op = "archive" /\ st.tasks[i].st = "success" THEN @ + 1 ELSE @,
               !.delete_successes =
                   IF op = "delete" /\ st.tasks[i].st = "success" THEN @ + 1 ELSE @,
               !.total_failures =
                   IF st.tasks[i].st # "success" THEN @ + 1 ELSE @],
            op, i + 1)

AssetsUnchanged ==
    UNCHANGED <<rqVars, chVars, runVars, kindVars, limits, remaining, stream,
                unarchive, resume>>

AssetsGathering == assetRun.pc \in {"archive", "delete"}

\* archive_and_delete_assets is called
AssetsStart ==
    /\ assetRun.pc = "start"
    /\ assetRun' = AssetChunkTop(assetRun)
    /\ AssetsUnchanged

\* "async with semaphore" lets a call in
AssetAcquire(i) ==
    /\ AssetsGathering
    /\ assetRun.tasks[i].st = "waiting"
    /\ Cardinality({j \in 1..Len(assetRun.tasks) :
                        assetRun.tasks[j].st = "running"})
          < ASSETS_DELETE_CONCURRENCY
    /\ assetRun' = [assetRun EXCEPT !.tasks[i].st = "running",
                                     !.tasks[i].attempt = 1]
    /\ AssetsUnchanged

\* an attempt of archive_asset or delete_asset ends: with 200 or 204, with
\* a status or an aiohttp.ClientError that is retried, with one that is
\* returned as an error row, or with an exception that is no
\* aiohttp.ClientError (the asyncio.TimeoutError of the session's total
\* timeout), which leaves the call
AssetRespond(i, out) ==
    /\ AssetsGathering
    /\ assetRun.tasks[i].st = "running"
    /\ out = "retry" => assetRun.tasks[i].attempt < AssetAttempts
    /\ assetRun' =
          IF out = "retry"
          THEN [assetRun EXCEPT !.tasks[i].attempt = @ + 1]
          ELSE [assetRun EXCEPT !.tasks[i].st = out]
    /\ AssetsUnchanged

AssetsAllReturned(st) ==
    \A i \in 1..Len(st.tasks) : st.tasks[i].st \in {"success", "error"}

\* "archive_results = await asyncio.gather(*archive_tasks)" returns: the
\* rows are written and Step 2 makes its calls
AssetsArchived ==
    /\ assetRun.pc = "archive" /\ AssetsAllReturned(assetRun)
    /\ assetRun' = AssetDeletePhase(AssetRows(assetRun, "archive", 1))
    /\ AssetsUnchanged

\* "delete_results = await asyncio.gather(*delete_tasks)" returns: the rows
\* are written and the loop goes to the next chunk
AssetsDeleted ==
    /\ assetRun.pc = "delete" /\ AssetsAllReturned(assetRun)
    /\ assetRun' =
          AssetChunkTop([AssetRows(assetRun, "delete", 1) EXCEPT
                            !.start = @ + ASSET_CHUNK])
    /\ AssetsUnchanged

\* asyncio.gather raises the exception of a call: it leaves
\* archive_and_delete_assets and main, and asyncio.run cancels the calls
\* still running
AssetsGatherRaised ==
    /\ AssetsGathering
    /\ \E i \in 1..Len(assetRun.tasks) : assetRun.tasks[i].st = "raised"
    /\ assetRun' = [assetRun EXCEPT !.pc = "raised"]
    /\ AssetsUnchanged

NextAssets ==
    \/ AssetsStart
    \/ \E i \in 1..Len(assetRun.tasks) : AssetAcquire(i)
    \/ \E i \in 1..Len(assetRun.tasks) :
          \E out \in {"success", "error", "retry", "raised"} : AssetRespond(i, out)
    \/ AssetsArchived
    \/ AssetsDeleted
    \/ AssetsGatherRaised

SpecAssets == InitAssets /\ [][NextAssets]_vars

(***************************************************************************)
(* SpecUnarchive: inspections/unarchive_inspections,                       *)
(* unarchive_single_inspection for one audit_id.                           *)
(*   attempt   the loop variable of "for attempt in range(MAX_RETRIES)"    *)
(*   tries     the responses received, as [status, retry_after]; status 0  *)
(*             stands for an aiohttp.ClientError or asyncio.TimeoutError,  *)
(*             retry_after is the text of the Retry-After header, <<>>     *)
(*             when the header is absent                                   *)
(*   slept     the arguments of asyncio.sleep, in order                    *)
(*   rows      the results handed to _write_result_to_csv_buffered         *)
(***************************************************************************)
DigitChars == {"0", "3"}
HeaderChars == DigitChars \cup {"."}
HeaderTexts == UNION {[1..n -> HeaderChars] : n \in 0..MaxHeaderLen}

UnarchiveResponses ==
    [status : {0, 200, 404, 503}, retry_after : {<<>>}]
        \cup [status : {429}, retry_after : HeaderTexts]

\* "retry_after and retry_after.isdigit()"
IsDigit(text) ==
    /\ text # <<>>
    /\ \A k \in 1..Len(text) : text[k] \in DigitChars

DigitValue(c) == IF c = "0" THEN 0 ELSE 3

\* int(retry_after) of a text of decimal digits
RECURSIVE IntOf(_)
IntOf(text) ==
    IF text = <<>> THEN 0
    ELSE 10 * IntOf(SubSeq(text, 1, Len(text) - 1)) + DigitValue(text[Len(text)])

\* "wait_time = max(1, min(wait_time, 300))"
\* (the variant has no floor)
RetryAfterWaitNoFloor(w) == Min(w, 300)
RetryAfterWait(w) == IF Min(w, 300) > 1 THEN Min(w, 300) ELSE 1

\* "delay = RETRY_BASE_DELAY * (2**attempt)"
UnarchiveDelay(attempt) == RETRY_BASE_DELAY * Pow2(attempt)

\* what a response leads to on an attempt: "SUCCESS" or "ERROR" (a result
\* row) or "sleep" with the delay
UnarchiveOutcome(attempt, resp) ==
    IF resp.status = 200 THEN [do |-> "SUCCESS", delay |-> 0]
    ELSE IF resp.status = 0
    THEN IF attempt < MAX_RETRIES - 1
         THEN [do |-> "sleep", delay |-> UnarchiveDelay(attempt)]
         ELSE [do |-> "ERROR", delay |-> 0]
    ELSE IF resp.status = 429 /\ attempt < MAX_RETRIES - 1
    THEN IF IsDigit(resp.retry_after)
         THEN [do |-> "sleep", delay |-> RetryAfterWait(IntOf(resp.retry_after))]
         ELSE [do |-> "sleep", delay |-> UnarchiveDelay(attempt)]
    ELSE IF resp.status \in RETRY_STATUS_CODES /\ attempt < MAX_RETRIES - 1
    THEN [do |-> "sleep", delay |-> UnarchiveDelay(attempt)]
    ELSE [do |-> "ERROR", delay |-> 0]

InitUnarchive ==
    /\ unarchive = [NoUnarchive EXCEPT !.pc = "start"]
    /\ resume = NoResume
    /\ RqIdle /\ ChIdle /\ NukeIdle /\ StreamIdle /\ AssetsIdle

UnarchiveUnchanged ==
    UNCHANGED <<rqVars, chVars, runVars, kindVars, limits, remaining, stream,
                assetRun, resume>>

\* the semaphore and the rate limiter let the call in: the loop begins
UnarchiveEnter ==
    /\ unarchive.pc = "start"
    /\ unarchive' = [unarchive EXCEPT !.pc = "attempt", !.attempt = 0]
    /\ UnarchiveUnchanged

\* the PUT of an attempt is answered
UnarchiveRespond(resp) ==
    /\ unarchive.pc = "attempt"
    /\ LET out == UnarchiveOutcome(unarchive.attempt, resp)
           t == [unarchive EXCEPT !.tries = Append(@, resp)]
       IN  unarchive' =
             IF out.do = "sleep"
             THEN [t EXCEPT !.pc = "sleeping", !.slept = Append(@, out.delay)]
             ELSE [t EXCEPT !.pc = "done", !.rows = Append(@, out.do)]
    /\ UnarchiveUnchanged

\* asyncio.sleep returns and "continue" takes the loop to its next
\* attempt; past the last one the "Max retries exceeded" row is written
UnarchiveWake ==
    /\ unarchive.pc = "sleeping"
    /\ unarchive' =
          IF unarchive.attempt + 1 < MAX_RETRIES
          THEN [unarchive EXCEPT !.pc = "attempt", !.attempt = @ + 1]
          ELSE [unarchive EXCEPT !.pc = "done", !.rows = Append(@, "ERROR")]
    /\ UnarchiveUnchanged

NextUnarchive ==
    \/ UnarchiveEnter
    \/ \E resp \in UnarchiveResponses : UnarchiveRespond(resp)
    \/ UnarchiveWake

SpecUnarchive == InitUnarchive /\ [][NextUnarchive]_vars

(***************************************************************************)
(* SpecResume: inspections/unarchive_inspections, main run after run over  *)
(* one input.csv and the unarchive_results.csv the runs leave.             *)
(*   input       the audit_id cells of input.csv, as texts                 *)
(*   log         the rows of unarchive_results.csv, as [audit_id, status]  *)
(*   audit_ids   the identifiers the run hands to                          *)
(*               unarchive_all_inspections                                 *)
(*   pending     the indexes of audit_ids whose call has not returned      *)
(*   csv_buffer  the rows buffered and not yet written                     *)
(*   requests    the PUTs sent, as [run, audit_id]                         *)
(*   prior       the audit_id texts that had a row in the log when the run *)
(*               began; mark is the length of the log then                 *)
(*   produced    the results produced in the run, in order                 *)
(***************************************************************************)
IdChars == DigitChars \cup {"a"}
IdTexts == UNION {[1..n -> IdChars] : n \in 1..MaxIdLen}

\* int to str: the decimal digits without leading zeros
RECURSIVE StripZeros(_)
StripZeros(text) ==
    IF Len(text) > 1 /\ Head(text) = "0" THEN StripZeros(Tail(text)) ELSE text

\* pd.read_csv(...)["audit_id"].astype(str).str.strip(): a column whose
\* cells are all decimal digits is read as integers, and astype(str) gives
\* their decimal form; any other column keeps the texts of its cells
\* (the variant keeps the texts of every column)
ColumnReadAsText(cells) == cells
ColumnRead(cells) ==
    IF cells # <<>> /\ \A k \in 1..Len(cells) : IsDigit(cells[k])
    THEN [k \in 1..Len(cells) |-> StripZeros(cells[k])]
    ELSE cells

\* load_completed_audit_ids
CompletedIds(log) ==
    LET col == ColumnRead([k \in 1..Len(log) |-> log[k].audit_id])
    IN  {col[k] : k \in 1..Len(col)}

\* [aid for aid in all_audit_ids if aid not in completed_ids]
FilterIds(ids, completed) == SelectSeq(ids, LAMBDA aid : aid \notin completed)

InitResume ==
    /\ resume \in {[NoResume EXCEPT !.pc = "load", !.run = 1, !.input = cells] :
                      cells \in UNION {[1..n -> IdTexts] : n \in 1..MaxInput}}
    /\ unarchive = NoUnarchive
    /\ RqIdle /\ ChIdle /\ NukeIdle /\ StreamIdle /\ AssetsIdle

ResumeUnchanged ==
    UNCHANGED <<rqVars, chVars, runVars, kindVars, limits, remaining, stream,
                assetRun, unarchive>>

\* main up to "async with InspectionUnarchiver()": the input and the log
\* are read and the identifiers of the log are filtered out; with a log and
\* nothing left the run returns, else the context is entered
ResumeLoad ==
    /\ resume.pc = "load"
    /\ LET all_audit_ids == ColumnRead(resume.input)
           completed_ids == CompletedIds(resume.log)
           audit_ids == IF completed_ids # {}
                        THEN FilterIds(all_audit_ids, completed_ids)
                        ELSE all_audit_ids
           t == [resume EXCEPT
                   !.audit_ids = audit_ids,
                   !.prior = {resume.log[k].audit_id : k \in 1..Len(resume.log)},
                   !.mark = Len(resume.log),
                   !.produced = <<>>,
                   !.csv_buffer = <<>>]
       IN  resume' =
             IF audit_ids = <<>>
             THEN [t EXCEPT !.pc = "end", !.pending = {}]
             ELSE [t EXCEPT !.pc = "run", !.pending = 1..Len(audit_ids)]
    /\ ResumeUnchanged

\* _flush_csv_buffer
FlushCsvBuffer(st) ==
    [st EXCEPT !.log = @ \o st.csv_buffer, !.csv_buffer = <<>>]

\* _write_result_to_csv_buffered
WriteResultBuffered(st, result) ==
    LET t == [st EXCEPT !.csv_buffer = Append(@, result)]
    IN  IF Len(t.csv_buffer) >= CSV_BUFFER_SIZE THEN FlushCsvBuffer(t) ELSE t

\* the first index (from 0) of the batch being gathered
BatchStart(st) ==
    BATCH_SIZE *
      ((((CHOOSE i \in st.pending : \A j \in st.pending : i <= j) - 1))
          \div BATCH_SIZE)

\* a call of the batch sends its PUT and returns with its result
ResumeResult(i, status) ==
    /\ resume.pc = "run"
    /\ i \in resume.pending
    /\ i <= BatchStart(resume) + BATCH_SIZE
    /\ LET result == [audit_id |-> resume.audit_ids[i], status |-> status]
           t == [resume EXCEPT
                   !.pending = @ \ {i},
                   !.requests = @ \cup {[run |-> resume.run,
                                          audit_id |-> resume.audit_ids[i]]},
                   !.produced = Append(@, result)]
       IN  resume' = WriteResultBuffered(t, result)
    /\ ResumeUnchanged

\* the last batch is gathered and the context exits: __aexit__ flushes
\* what the buffer holds
ResumeExit ==
    /\ resume.pc = "run" /\ resume.pending = {}
    /\ resume' = [FlushCsvBuffer(resume) EXCEPT !.pc = "exited"]
    /\ ResumeUnchanged

\* a KeyboardInterrupt: asyncio.run cancels main, the calls still pending
\* are cancelled, and the context exits through __aexit__
ResumeInterrupt ==
    /\ resume.pc = "run" /\ resume.pending # {}
    /\ resume' = [FlushCsvBuffer(resume) EXCEPT !.pc = "exited"]
    /\ ResumeUnchanged

\* the script is run again over the same input.csv
ResumeAgain ==
    /\ resume.pc \in {"exited", "end"}
    /\ resume.run < MaxRuns
    /\ resume' = [resume EXCEPT !.pc = "load", !.run = @ + 1]
    /\ ResumeUnchanged

NextResume ==
    \/ ResumeLoad
    \/ \E i \in 1..MaxInput : \E status \in {"SUCCESS", "ERROR"} :
          ResumeResult(i, status)
    \/ ResumeExit
    \/ ResumeInterrupt
    \/ ResumeAgain

SpecResume == InitResume /\ [][NextResume]_vars

(***************************************************************************)
(* SpecInterrupt: a run over one kind that a KeyboardInterrupt may end.    *)
(* asyncio.run cancels the main task and every task still pending: the     *)
(* CancelledError raised at the await of a request is a BaseException,     *)
(* which "except Exception" in the deletion procedures does not catch.     *)
(* A cancelled task's pc is "cancelled" when its request was in flight and *)
(* "unstarted" when it still waited for delete_sem.                        *)
(***************************************************************************)
InitInterrupt ==
    /\ yes = TRUE
    /\ skip \in {sk \in SUBSET Kinds : Cardinality(Kinds \ sk) <= MaxPlanned}
    /\ confirm = "" /\ runPc = "confirm" /\ idx = 0
    /\ summaries = <<>> /\ printed = <<>>
    /\ KindIdle
    /\ ShallowBackend
    /\ RqIdle /\ ChIdle /\ ToolsIdle

\* what cancellation makes of a deletion task
Cancelled(t) ==
    CASE t.pc \in {"archive", "delete"} -> [t EXCEPT !.pc = "cancelled"]
      [] t.pc = "wait" -> [t EXCEPT !.pc = "unstarted"]
      [] OTHER -> t

\* what it makes of a page fetch of delete_osha_cases
CancelledFetch(f) == IF f.st = "pending" THEN [f EXCEPT !.st = "cancelled"] ELSE f

\* Ctrl-C while a kind is processed: "Interrupted by user"
Interrupt ==
    /\ runPc = "processing"
    /\ runPc' = "interrupted"
    /\ tasks' = [i \in 1..Len(tasks) |-> Cancelled(tasks[i])]
    /\ inFlight' = [i \in 1..Len(inFlight) |-> CancelledFetch(inFlight[i])]
    /\ awaited' = CancelledFetch(awaited)
    /\ UNCHANGED <<yes, skip, confirm, idx, summaries, printed, stats, kpc,
                   cursorVars, pageNumber, tokenMode, nextToken, backendVars,
                   rqVars, chVars, envVars>>

NextInterrupt ==
    \/ Next
    \/ Interrupt

SpecInterrupt == InitInterrupt /\ [][NextInterrupt]_vars

(***************************************************************************)
(* SpecTally: a run over one kind with --delete-concurrency raised by one, *)
(* so that the deletion procedures of a page hold the gate together.       *)
(***************************************************************************)
InitTally ==
    /\ yes = TRUE
    /\ skip \in {sk \in SUBSET Kinds : Cardinality(Kinds \ sk) <= MaxPlanned}
    /\ confirm = "" /\ runPc = "confirm" /\ idx = 0
    /\ summaries = <<>> /\ printed = <<>>
    /\ KindIdle
    /\ limits = [pages |-> MaxPages, osha |-> MaxRunPages,
                 gate |-> DELETE_CONCURRENCY + 1]
    /\ remaining = <<>>
    /\ RqIdle /\ ChIdle /\ ToolsIdle

SpecTally == InitTally /\ [][Next]_vars

(***************************************************************************)
(* SpecOsha: a run over delete_osha_cases alone, in which whatever can     *)
(* happen next eventually does: the event loop runs every task that is     *)
(* ready, and every request is answered or times out.                      *)
(***************************************************************************)
InitOsha ==
    /\ yes = TRUE /\ skip = Kinds \ {"osha_cases"}
    /\ confirm = "" /\ runPc = "confirm" /\ idx = 0
    /\ summaries = <<>> /\ printed = <<>>
    /\ KindIdle
    /\ DeepBackend
    /\ RqIdle /\ ChIdle /\ ToolsIdle

NextOsha ==
    \/ ConfirmBypass
    \/ \E i \in 1..Len(inFlight) : FetchDone(i)
    \/ AwaitedDone
    \/ OshaPage
    \/ OshaTokenPage
    \/ OshaListFail
    \/ OshaGather
    \/ Acquire
    \/ Respond
    \/ Summarize

SpecOsha == InitOsha /\ [][NextOsha]_vars /\ WF_vars(NextOsha)

(***************************************************************************)
(* Properties.                                                             *)
(***************************************************************************)
\* the status of a response is one of the transient statuses
Transient(resp) ==
    resp.kind = "http" /\ resp.status \in {429, 500, 502, 503, 504}

\* the response is a success for a delete request
Succeeded(resp) == resp.kind = "http" /\ resp.status \in {200, 204}

\* C5: a request answered once with 429 and Retry-After: 3, then with
\* success, makes exactly 2 attempts, and its second attempt starts at least
\* 3 time units after the first response.
C5_RetryAfterDelaysRetry ==
    (/\ Len(rqLog) >= 2
     /\ rqLog[1] = Http(429, 3)
     /\ Succeeded(rqLog[2]))
    => /\ Len(rqLog) = 2
       /\ rqGaps[1] >= 3

\* C7: the batches issued so far are consecutive slices of the input whose
\* concatenation is the input consumed so far; every batch has length size,
\* except possibly the last one of a finished loop, which is non-empty and
\* shorter; stats.batches counts one per batch issued; chunked() of the
\* whole input has the same shape, and 250 items in batches of 100 give
\* exactly 3 batches of 100, 100 and 50.
C7_ChunkedSplitsIntoBatches ==
    /\ chBatches = Len(chOut)
    /\ Concat(chOut) = SubSeq(chItems, 1, Min(chI, Len(chItems)))
    /\ \A k \in 1..Len(chOut) :
        \/ Len(chOut[k]) = chSize
        \/ /\ k = Len(chOut) /\ chI >= Len(chItems)
           /\ Len(chOut[k]) >= 1 /\ Len(chOut[k]) < chSize
    /\ LET all == chunked(chItems, chSize)
       IN  /\ Concat(all) = chItems
           /\ \A k \in 1..Len(all) :
                /\ Len(all[k]) >= 1
                /\ k < Len(all) => Len(all[k]) = chSize
                /\ Len(all[k]) <= chSize
           /\ chI >= Len(chItems) => chOut = all
    /\ LET items == [i \in 1..250 |-> i]
           b == chunked(items, 100)
       IN  /\ Len(b) = 3
           /\ Len(b[1]) = 100 /\ Len(b[2]) = 100 /\ Len(b[3]) = 50
           /\ Concat(b) = items

\* C7 happens: a finished loop that issued several batches, the last shorter
C7_ShortLastBatch ==
    /\ chI >= Len(chItems)
    /\ Len(chOut) >= 2
    /\ Len(chOut[Len(chOut)]) < chSize
    /\ chBatches = Len(chOut)

\* C10: a request makes at most 4 attempts; every response but the last was
\* retried, and a transient status before the 4th attempt is always retried;
\* the sleeps before attempts 2, 3 and 4 are 2, 4 and 8 time units and the
\* time elapsed is at least the sleep; a success ends the request at once
\* and counts one deletion; the 4th transient response raises an error that
\* the calling delete procedure records as exactly one failure.
C10_BoundedDoublingRetry ==
    /\ Len(rqLog) <= 4
    /\ rqSlept = SubSeq(<<2, 4, 8>>, 1, Len(rqSlept))
    /\ Len(rqSlept) = (IF rqPc = "sleep" THEN Len(rqLog)
                       ELSE IF rqPc = "send" THEN Len(rqLog)
                       ELSE Len(rqLog) - 1)
    /\ Len(rqGaps) = (IF rqPc = "sleep" THEN Len(rqSlept) - 1 ELSE Len(rqSlept))
    /\ \A i \in 1..Len(rqGaps) : rqGaps[i] >= rqSlept[i]
    /\ \A i \in 1..Len(rqLog) :
        /\ (Transient(rqLog[i]) /\ i < 4) => Len(rqSlept) >= i
        /\ Succeeded(rqLog[i]) =>
             /\ i = Len(rqLog) /\ rqPc = "done" /\ rqOutcome = "return"
             /\ rqStats.deleted = 1 /\ rqStats.failed = 0
    /\ (Len(rqLog) = 4 /\ Transient(rqLog[4])) =>
         /\ rqPc = "done" /\ rqOutcome = "RuntimeError"
         /\ rqStats.deleted = 0 /\ rqStats.failed = 1
         /\ Len(rqStats.errors) = 1

\* C10 happens: four transient responses, three sleeps, one recorded failure
C10_RetriesExhausted ==
    /\ Len(rqLog) = 4
    /\ \A i \in 1..4 : Transient(rqLog[i])
    /\ rqSlept = <<2, 4, 8>>
    /\ rqOutcome = "RuntimeError"
    /\ rqStats.failed = 1

\* the delete method of the kind named in stats has returned, and no other
\* kind was started since
Returned == runPc \in {"summary", "done"} /\ summaries # <<>>

\* how many of the recorded errors are msg
Count(errors, msg) == Len(SelectSeq(errors, LAMBDA e : e = msg))

\* the tasks of the page in hand that have not finished
Unfinished == {i \in 1..Len(tasks) : tasks[i].pc # "done"}

\* C1: the stats a kind's delete method returned satisfy
\* fetched == deleted + failed, whatever the delete responses were and
\* whatever the listed items looked like.
C1_FetchedIsDeletedPlusFailed ==
    \A i \in 1..Len(summaries) :
        summaries[i].fetched = summaries[i].deleted + summaries[i].failed

\* C2: in delete_actions no identifier is contained in more than one
\* bulk-delete call, even when a later page repeats an item of an earlier one.
C2_NoIdDeletedTwice ==
    stats.name = "actions" => \A a \in Ids : delCalls[a] <= 1

\* C3: an item of an archive-then-delete kind is never counted failed on
\* account of an archive call answered with a status that is not retried:
\* the delete call is still issued and alone decides the outcome.
C3_ArchiveFailureSwallowed ==
    \A i \in 1..Len(tasks) :
        (tasks[i].archive /\ tasks[i].result = "failed" /\ tasks[i].why = "status")
            => tasks[i].failedAt = "delete"

OshaShortFourth ==
    /\ stats.name = "osha_cases"
    /\ Len(processed) >= 4
    /\ \A i \in 1..3 :
        processed[i].page_number = i /\ processed[i].n = OSHA_PAGE_SIZE
    /\ processed[4].page_number = 4 /\ processed[4].n < OSHA_PAGE_SIZE

\* exactly pages 1 to 4 were processed, no request carried a page_token, and
\* the method has returned or is gathering the deletions of page 4
OshaStopsAtFourth ==
    /\ Len(processed) = 4
    /\ \A k \in 1..Len(listLog) : listLog[k].page_token = 0
    /\ kpc = "gather_pn" \/ Returned

\* C6 as stated: with full pages 1 to 3 and a short page 4, exactly pages 1 to
\* 4 are processed and no request carries a page_token, whatever
\* next_page_token values the responses hold.
C6_StopsWhateverTokens == OshaShortFourth => OshaStopsAtFourth

\* C6 amended: the same, provided none of the responses of pages 1 to 4
\* carries a next_page_token.
C6_StopsWithoutTokens == (OshaShortFourth /\ ~listed.token) => OshaStopsAtFourth

\* C6 happens: the method returned after the short page 4, no token seen
C6_ReturnedAfterFourth ==
    /\ OshaShortFourth /\ ~listed.token /\ Returned
    /\ stats.fetched = 3 * OSHA_PAGE_SIZE + processed[4].n

\* C8: when a batch of a bulk-delete kind finishes, a failure adds exactly
\* the batch length to failed and nothing to deleted, a success adds exactly
\* the batch length to deleted and nothing to failed, and no other batch of
\* the page changes.
C8_BatchStep ==
    (stats.name \in {"actions", "sites"} /\ Len(tasks') = Len(tasks)) =>
        \A i \in 1..Len(tasks) :
            (tasks[i].pc # "done" /\ tasks'[i].pc = "done") =>
                /\ tasks'[i].result \in {"deleted", "failed"}
                /\ tasks'[i].result = "failed" =>
                     /\ stats'.failed = stats.failed + Len(tasks[i].ids)
                     /\ stats'.deleted = stats.deleted
                /\ tasks'[i].result = "deleted" =>
                     /\ stats'.deleted = stats.deleted + Len(tasks[i].ids)
                     /\ stats'.failed = stats.failed
                /\ \A j \in 1..Len(tasks) : j # i => tasks'[j] = tasks[j]
C8_BatchOutcomeIsAllOrNothing == [][C8_BatchStep]_vars

\* C8 happens: the batch of the first page, two actions, failed as a whole,
\* and the batch of the next page, one action, was deleted
C8_DeletedBatchAfterFailedBatch ==
    /\ stats.name = "actions" /\ Len(processed) = 2
    /\ Len(tasks) = 1 /\ Len(tasks[1].ids) = 1 /\ tasks[1].result = "deleted"
    /\ stats.failed = 2 /\ stats.deleted = 1 /\ Len(stats.errors) = 1

\* C9: a kind whose delete-side requests were all answered 404 returns with
\* deleted == 0 and every item it fetched counted failed.
C9_AllNotFoundAllFailed ==
    (Returned /\ only404 /\ stats.failed > 0) =>
        /\ stats.deleted = 0
        /\ stats.failed = stats.fetched

\* C11: an attempt that ends in a connection error or in a request timeout
\* is followed by a backoff sleep and a further attempt as long as fewer
\* than 4 attempts were made.
C11_ConnectionAndTimeoutRetried ==
    \A i \in 1..Len(rqLog) :
        (rqLog[i].kind \in {"ClientError", "TimeoutError"} /\ i < 4)
            => Len(rqSlept) >= i

\* the response carries a 4xx status other than 429
ClientFault(resp) ==
    resp.kind = "http" /\ resp.status \in 400..499 /\ resp.status # 429

\* C12: a response with a 4xx status other than 429 ends the request at once:
\* no sleep follows it and no further attempt, so as the first response it
\* leaves one attempt and no sleep at all; the error raised, which the
\* caller records, carries the status and the body of that response.
C12_ClientFaultFailsAtOnce ==
    \A i \in 1..Len(rqLog) :
        ClientFault(rqLog[i]) =>
            /\ i = Len(rqLog) /\ Len(rqSlept) = i - 1
            /\ rqPc = "done" /\ rqOutcome = "RuntimeError"
            /\ rqStats.failed = 1 /\ rqStats.deleted = 0
            /\ Len(rqStats.errors) = 1
            /\ rqStats.errors[1].status = rqLog[i].status
            /\ rqStats.errors[1].text = rqLog[i].text

\* C12 happens: a 409 with a body as the first response
C12_ConflictOnFirstAttempt ==
    /\ rqLog = <<Http(409, 0)>> /\ rqSlept = <<>>
    /\ rqOutcome = "RuntimeError"
    /\ rqStats.errors[1].status = 409 /\ rqStats.errors[1].text = "body"

\* the deletion procedures that hold the delete gate: their archive or
\* delete request is in flight or sleeping before its next attempt
InGate == {i \in 1..Len(tasks) : tasks[i].pc \in {"archive", "delete"}}

\* C13: at every moment at most delete_concurrency deletion procedures hold
\* the delete gate.
C13_DeleteGateBounded == Cardinality(InGate) <= DELETE_CONCURRENCY

\* C13 happens: the gate is full, its holder sleeps before a further
\* attempt, and another procedure waits for the gate
C13_GateFullWhileBackingOff ==
    /\ Cardinality(InGate) = DELETE_CONCURRENCY
    /\ \E i \in InGate : tasks[i].attempt >= 1
    /\ \E j \in 1..Len(tasks) : tasks[j].pc = "wait"

\* the listing requests in flight: the page fetches of delete_osha_cases not
\* yet answered, awaited or not, and the listing request a method waits on
ListInFlight ==
    Cardinality({i \in 1..Len(inFlight) : inFlight[i].st = "pending"})
        + (IF awaited.st = "pending" THEN 1 ELSE 0)
        + (IF runPc = "processing" /\ kpc \in {"list", "token_req"} THEN 1 ELSE 0)

\* C14: at every moment at most list_concurrency listing requests are in
\* flight, the page fetches delete_osha_cases left behind included.
C14_ListingBounded == ListInFlight <= LIST_CONCURRENCY

\* C14 happens: delete_osha_cases returned leaving a page fetch unanswered,
\* and the next kind's listing request is in flight beside it
C14_FetchLeftBehind ==
    /\ runPc = "processing" /\ stats.name = "templates" /\ kpc = "list"
    /\ \E i \in 1..Len(inFlight) : inFlight[i].st = "pending"
    /\ ListInFlight = LIST_CONCURRENCY

\* the fixed order of the kinds
KindOrder ==
    <<"actions", "issues", "inspections", "assets", "credentials", "companies",
      "osha_cases", "templates", "sites">>
Position(name) == CHOOSE k \in 1..Len(KindOrder) : KindOrder[k] = name

\* the kinds that returned came in the fixed order, and the kind being
\* processed comes after them
InKindOrder ==
    /\ \A i \in 1..Len(summaries) : \A j \in 1..Len(summaries) :
        i < j => Position(summaries[i].name) < Position(summaries[j].name)
    /\ runPc = "processing" =>
        /\ stats.name = Kind
        /\ \A i \in 1..Len(summaries) : Position(summaries[i].name) < Position(Kind)

\* run_nuke moves to another kind only forward in the fixed order, to the
\* first kind not skipped, and only when every delete task of the kind it
\* leaves has completed
MovesOn ==
    idx' # idx =>
        /\ idx' > idx
        /\ \A i \in 1..Len(tasks) : tasks[i].pc = "done"
        /\ \A k \in (idx + 1)..(idx' - 1) : k <= Len(KindOrder) => KindOrder[k] \in skip
        /\ idx' <= Len(KindOrder) =>
             /\ KindOrder[idx'] \notin skip
             /\ stats'.name = KindOrder[idx'] /\ tasks' = <<>>

\* C15: the non-skipped kinds are processed one at a time in the fixed
\* order, and no request of a later kind is issued before every delete task
\* of each earlier kind has completed.
C15_KindsInOrderOneAtATime == [][MovesOn /\ InKindOrder']_vars

\* C15 happens: two kinds were processed, the first with a delete task, and
\* the run finished
C15_TwoKindsDone ==
    /\ runPc = "done" /\ Len(summaries) = 2
    /\ summaries[1].fetched > 0 /\ summaries[1].deleted + summaries[1].failed > 0
    /\ summaries[2].deleted > 0

\* C16: without --yes, a run whose typed confirmation is not exactly NUKE
\* stops before any list or delete request is issued.
C16_OnlyExactPhraseProceeds ==
    (~yes /\ runPc # "confirm" /\ confirm # "NUKE") =>
        /\ runPc = "aborted"
        /\ listLog = <<>> /\ tasks = <<>>

\* the names of the stats returned so far
SummaryNames == [i \in 1..Len(summaries) |-> summaries[i].name]

\* the kinds not skipped, in the fixed order
RECURSIVE Unskipped(_)
Unskipped(k) ==
    IF k > Len(KindOrder) THEN <<>>
    ELSE (IF KindOrder[k] \in skip THEN <<>> ELSE <<KindOrder[k]>>) \o Unskipped(k + 1)

\* C17: no ResourceStats exists for a skipped kind, neither returned nor in
\* use by a method issuing requests, and no summary line names one; the
\* stats returned are those of the kinds not skipped, in the fixed order,
\* and once the run is done there is one of each, and one line for each.
C17_SkippedKindsUntouched ==
    /\ stats.name \notin skip
    /\ runPc = "processing" => stats.name = Kind
    /\ \A i \in 1..Len(summaries) : summaries[i].name \notin skip
    /\ \A i \in 1..Len(printed) : printed[i].name \notin skip
    /\ SummaryNames = SubSeq(Unskipped(1), 1, Len(summaries))
    /\ runPc \in {"summary", "done"} => SummaryNames = Unskipped(1)
    /\ runPc = "done" => [i \in 1..Len(printed) |-> printed[i].name] = Unskipped(1)

\* C17 happens: a finished run of two kinds with a skipped kind between them
C17_SkippedBetweenTwo ==
    /\ runPc = "done" /\ Len(printed) = 2
    /\ \E k \in 1..Len(KindOrder) :
        /\ KindOrder[k] \in skip
        /\ Position(printed[1].name) < k /\ k < Position(printed[2].name)

\* the page whose deletions are gathered is not the last of its kind
MorePages ==
    CASE stats.name = "actions" -> data.n >= ACTION_PAGE_SIZE
      [] stats.name = "assets" -> data.token # 0 \/ pass = 1
      [] stats.name \in {"issues", "credentials", "companies", "sites"} -> data.token # 0
      [] stats.name \in {"inspections", "templates"} -> data.next_page # <<>>
      [] OTHER -> FALSE

\* a failing deletion procedure changes nothing but its own task and the
\* stats: the other tasks, the cursor of the listing and the position of the
\* run stay as they are, and the procedure leaves the delete gate
FailureIsLocal ==
    \A i \in 1..Len(tasks) :
        (/\ Len(tasks') = Len(tasks)
         /\ tasks[i].pc # "done" /\ tasks'[i].pc = "done"
         /\ tasks'[i].result = "failed") =>
            /\ \A j \in 1..Len(tasks) : j # i => tasks'[j] = tasks[j]
            /\ runPc' = "processing" /\ idx' = idx /\ kpc' = kpc
            /\ <<cursorVars, oshaVars, listLog, summaries>>'
                 = <<cursorVars, oshaVars, listLog, summaries>>
            /\ tasks'[i].pc \notin {"archive", "delete"}

\* once the deletions of a page are gathered, the listing goes round when
\* the page was not the last, whatever failed, and the method returns
\* otherwise; its stats are appended and the run goes on
GoesOn ==
    (runPc = "processing" /\ kpc = "gather" /\ (kpc' # kpc \/ idx' # idx)) =>
        /\ \A i \in 1..Len(tasks) : tasks[i].pc = "done"
        /\ IF MorePages
           THEN /\ idx' = idx /\ runPc' = "processing" /\ kpc' = "list"
                /\ Len(listLog') = Len(listLog) + 1
                /\ stats' = stats
           ELSE /\ summaries' = Append(summaries, stats)
                /\ runPc' \in {"processing", "summary"}
                /\ runPc' = "processing" => idx' > idx

\* the run is left by an exception only while a listing request is awaited
CrashOnlyFromListing ==
    (runPc' = "crashed" /\ runPc # "crashed") =>
        /\ kpc \in {"list", "await_page", "token_req"}
        /\ \A i \in 1..Len(tasks) : tasks[i].pc = "done"

\* C18: a failed delete call stops no other work: the other items and
\* batches keep their own procedures, pagination continues to its end, and
\* the later kinds are still processed.
C18_FailuresStopNothing == [][FailureIsLocal /\ GoesOn /\ CrashOnlyFromListing]_vars

\* C18 happens: every deletion of delete_assets failed, and the next kind
\* was processed to the end
C18_AllFailedThenNextKind ==
    /\ runPc = "done" /\ Len(summaries) = 2
    /\ summaries[1].name = "assets" /\ summaries[1].fetched = 2
    /\ summaries[1].deleted = 0 /\ summaries[1].failed = 2
    /\ summaries[2].deleted > 0

\* C19: once confirmed, no exception leaves run_nuke, whatever the backend
\* answers, a listing request that fails terminally included.
C19_RunNeverCrashes == runPc # "crashed"

\* C20: when every call succeeds and deleted actions are no longer listed,
\* delete_actions returns only when no action remains on the backend.
C20_NoActionRemains ==
    (Returned /\ stats.name = "actions") => remaining = <<>>

\* C21: when an interrupt ends the run, every delete call that had been
\* dispatched has run to its response and its outcome is in the stats: no
\* deletion procedure was cancelled with its request in flight.
C21_DispatchedDeletesFinish ==
    runPc = "interrupted" =>
        \A i \in 1..Len(tasks) :
            tasks[i].pc # "cancelled"

\* C22: the error list of a ResourceStats is capped: however many failures
\* are recorded, it never holds more entries than a fixed number (taken here
\* as the number of errors run_nuke prints for a kind).
C22_ErrorLogCapped == Len(stats.errors) <= ErrorsShown

\* C23: the final summary has exactly one line per processed kind, in the
\* order the kinds were processed; a line says "no items to delete" exactly
\* when the kind's fetched count is 0, and otherwise reports the kind's
\* deleted, fetched and failed counts, also when deleted is 0.
C23_OneSummaryLinePerKind ==
    runPc = "done" =>
        /\ Len(printed) = Len(summaries)
        /\ \A i \in 1..Len(printed) :
            /\ printed[i].name = summaries[i].name
            /\ printed[i].text = "none to delete" <=> summaries[i].fetched = 0
            /\ summaries[i].fetched > 0 =>
                 /\ printed[i].text = "deleted"
                 /\ printed[i].deleted = summaries[i].deleted
                 /\ printed[i].fetched = summaries[i].fetched
                 /\ printed[i].failed = summaries[i].failed

\* C23 happens: a summary of two lines, one for a kind that listed nothing,
\* one for a kind whose listed items all failed
C23_NothingListedAndNothingDeleted ==
    /\ runPc = "done" /\ Len(printed) = 2
    /\ printed[1].text = "none to delete" /\ summaries[1].fetched = 0
    /\ printed[2].text = "deleted" /\ printed[2].deleted = 0
    /\ printed[2].fetched = 2 /\ printed[2].failed = 2

\* one step of the deletion procedures of a page of an archive-then-delete
\* kind: a procedure that enters the gate sends the archive request, the
\* delete request is sent only by a procedure whose archive request has been
\* answered with success, and a procedure stays in the gate from its archive
\* request to its end
C24_Step ==
    (stats.name \in ArchiveKinds /\ Len(tasks') = Len(tasks)) =>
        /\ \A i \in 1..Len(tasks) :
            /\ tasks[i].archive
            /\ tasks[i].pc = "wait" => tasks'[i].pc \in {"wait", "archive"}
            /\ tasks[i].pc = "archive" => tasks'[i].pc \in {"archive", "delete", "done"}
            /\ tasks[i].pc = "delete" => tasks'[i].pc \in {"delete", "done"}
            /\ tasks[i].pc = "done" => tasks'[i] = tasks[i]
            /\ (tasks[i].pc = "archive" /\ tasks'[i].pc = "done") =>
                 tasks'[i].result = "failed" /\ tasks'[i].failedAt = "archive"
        /\ \A a \in Ids :
            delCalls'[a] # delCalls[a] =>
                \E i \in 1..Len(tasks) :
                    /\ a \in Range(tasks[i].ids)
                    /\ tasks[i].pc = "archive" /\ tasks'[i].pc = "delete"

\* C24: for every identifier of an archive-then-delete kind the archive
\* request is issued before the delete request: the delete request is never
\* sent before the archive request, retries included, has ended, and both
\* happen under one hold of the delete gate.
C24_ArchiveBeforeDelete == [][C24_Step]_vars

\* C24 happens: a procedure has had its archive request answered and its
\* delete request is being retried, while another one waits for the gate
C24_DeleteAfterArchive ==
    /\ stats.name \in ArchiveKinds
    /\ \E i \in 1..Len(tasks) :
        /\ tasks[i].archive /\ tasks[i].pc = "delete" /\ tasks[i].attempt >= 1
        /\ \A a \in Range(tasks[i].ids) : delCalls[a] >= 1
    /\ \E j \in 1..Len(tasks) : tasks[j].pc = "wait"

\* the identifiers carried by the tasks of ts whose pc is in pcs
RECURSIVE IdsIn(_, _)
IdsIn(ts, pcs) ==
    IF ts = <<>> THEN 0
    ELSE (IF Head(ts).pc \in pcs THEN Len(Head(ts).ids) ELSE 0) + IdsIn(Tail(ts), pcs)

\* the deletion procedures of the page in hand that finish in this step
Finishing == {i \in 1..Len(tasks) : tasks[i].pc # "done" /\ tasks'[i].pc = "done"}

\* one step of a kind's processing: a procedure that finishes changes
\* exactly one of deleted and failed, by the number of its identifiers, and
\* a failure appends one entry to errors; a step in which none finishes
\* leaves the stats alone; a step that lists a page changes failed only by
\* the items rejected locally, one entry each
C25_Step ==
    (stats'.name = stats.name /\ stats.name \in Kinds) =>
        IF Len(tasks') = Len(tasks) /\ tasks # <<>>
        THEN /\ Cardinality(Finishing) <= 1
             /\ Finishing = {} => stats' = stats
             /\ \A i \in Finishing :
                 \/ /\ tasks'[i].result = "deleted"
                    /\ stats'.deleted = stats.deleted + Len(tasks[i].ids)
                    /\ stats'.failed = stats.failed
                    /\ stats'.errors = stats.errors
                 \/ /\ tasks'[i].result = "failed"
                    /\ stats'.failed = stats.failed + Len(tasks[i].ids)
                    /\ stats'.deleted = stats.deleted
                    /\ Len(stats'.errors) = Len(stats.errors) + 1
                    /\ SubSeq(stats'.errors, 1, Len(stats.errors)) = stats.errors
        ELSE /\ stats'.deleted = stats.deleted
             /\ stats'.failed >= stats.failed
             /\ stats'.failed - stats.failed = Len(stats'.errors) - Len(stats.errors)
             /\ SubSeq(stats'.errors, 1, Len(stats.errors)) = stats.errors

\* deleted + failed is the number of identifiers dispatched so far whose
\* procedure has finished, plus the items rejected locally
C25_Tally ==
    LET pend == IdsIn(tasks, {"wait", "archive", "delete"})
        sum == stats.deleted + stats.failed
    IN  /\ stats.name \in {"actions", "issues", "inspections", "templates", "osha_cases"}
             => sum = listed.n - listed.incomplete - pend
        /\ stats.name = "credentials" => sum = listed.n - pend
        /\ stats.name = "assets" => sum = Cardinality(seen) - pend
        /\ stats.name = "sites" => sum = stats.fetched - pend
        /\ stats.name \in Kinds \ {"actions", "sites"} => stats.failed = Len(stats.errors)

\* C25: under every interleaving of the deletion procedures no counter
\* update is lost: deleted + failed always equals the number of identifiers
\* whose procedure has finished plus the items rejected locally, each
\* finished procedure having changed exactly one of the two counters and
\* each failure having appended one entry to errors.
C25_NoUpdateLost == [][C25_Step /\ C25_Tally']_vars

\* C25 happens: after a page with a deletion and a failure, the two
\* procedures of the next page hold the gate together, each between two
\* attempts of its request
C25_TwoInGateAfterOutcomes ==
    /\ Len(processed) = 2 /\ stats.deleted = 1 /\ stats.failed = 1
    /\ Len(tasks) = 2
    /\ \A i \in 1..2 : tasks[i].pc \in {"archive", "delete"} /\ tasks[i].attempt >= 1

\* C26: at every state of a kind's processing fetched >= deleted + failed,
\* and fetched already counts the identifiers of the page in hand whose
\* procedures have not finished: a page is added to fetched before any
\* deletion outcome of it is recorded.  The stats returned satisfy it too.
C26_FetchedCoversOutcomes ==
    /\ stats.fetched >= stats.deleted + stats.failed
             + IdsIn(tasks, {"wait", "archive", "delete"})
    /\ \A i \in 1..Len(summaries) :
        summaries[i].fetched >= summaries[i].deleted + summaries[i].failed

\* C26 happens: the second page of credentials is in hand, four credentials
\* are fetched, three outcomes are recorded, a rejected credential among
\* them, and one deletion is in flight
C26_FetchedAheadOfOutcomes ==
    /\ stats.name = "credentials" /\ Len(processed) = 2
    /\ stats.fetched = 4 /\ stats.deleted + stats.failed = 3
    /\ Count(stats.errors, "missing identifiers") >= 1
    /\ \E i \in 1..Len(tasks) : tasks[i].pc = "delete"

\* a token-sequential kind issues a further listing request: it carries the
\* next_page_token of the response just consumed, which is a token, or it
\* opens the second pass of delete_assets after a response without one
C27_Step ==
    (/\ stats.name \in TokenKinds /\ stats'.name = stats.name
     /\ Len(listLog') # Len(listLog)) =>
        /\ Len(listLog') = Len(listLog) + 1
        /\ Len(processed') = Len(listLog)
        /\ listLog'[Len(listLog')].page_token = listed'.last
        /\ listLog'[Len(listLog')].page_number = 0
        /\ listed'.last = 0 => stats.name = "assets" /\ pass = 1 /\ pass' = 2
        /\ tasks' = <<>> /\ \A i \in 1..Len(tasks) : tasks[i].pc = "done"

\* the listing requests of a token-sequential kind are answered one by one:
\* all but the last have been consumed, the last is in flight exactly while
\* the method waits for it, no deletion is dispatched meanwhile, and the
\* first request carries no token
C27_Serial ==
    stats.name \in TokenKinds =>
        /\ listLog # <<>> /\ listLog[1].page_token = 0
        /\ IF kpc = "list"
           THEN Len(listLog) = Len(processed) + 1 /\ tasks = <<>>
           ELSE Len(listLog) = Len(processed)

\* C27: the token-sequential kinds (issues, credentials, companies, sites
\* and each pass of assets) list strictly serially: at most one listing
\* request is in flight, the first request carries no token, every later
\* request carries the next_page_token of the response before it, and no
\* listing request follows the first response without a token.
C27_TokenListingSerial == [][C27_Step /\ C27_Serial']_vars

\* C27 happens: delete_assets returned after two passes of two pages each
C27_TwoTokenPasses ==
    /\ Returned /\ stats.name = "assets"
    /\ Len(listLog) = 4 /\ Len(processed) = 4
    /\ listLog[1].page_token = 0 /\ listLog[2].page_token # 0
    /\ listLog[3].page_token = 0 /\ listLog[4].page_token # 0
    /\ listed.last = 0

\* a next_page that begins with "http"
IsAbsolute(np) == np # <<>> /\ Head(np) = "http"

\* a relative next_page that begins with more than one slash
DoubleSlashed(np) == Len(np) >= 2 /\ np[1] = "/" /\ np[2] = "/"

\* a path without its leading slashes
RECURSIVE Unslashed(_)
Unslashed(np) ==
    IF np # <<>> /\ Head(np) = "/" THEN Unslashed(Tail(np)) ELSE np

\* the base URL and a relative path joined with exactly one slash
JoinedOnce(np) == BaseUrl \o <<"/">> \o Unslashed(np)

\* the listing of a link-following kind goes round only after a response
\* with a next_page, once the deletions of that page are gathered, and one
\* request at a time
LinkLoop ==
    /\ Len(listLog') = Len(listLog) + 1
    /\ Len(processed') = Len(listLog)
    /\ listed'.link # <<>>
    /\ tasks' = <<>> /\ \A i \in 1..Len(tasks) : tasks[i].pc = "done"

\* a link-following kind issues a further listing request
LinkStep ==
    /\ stats.name \in LinkKinds /\ stats'.name = stats.name
    /\ Len(listLog') # Len(listLog)

\* a link-following kind that returned did so on a response without a
\* next_page, having consumed every response it asked for
LinkEnd ==
    (stats.name \in LinkKinds /\ Returned) =>
        listed.link = <<>> /\ Len(processed) = Len(listLog)

\* C28 as stated: after each page of delete_inspections or delete_templates
\* the next request goes to the page's next_page, unchanged when it is
\* absolute and joined to the base URL with exactly one slash when it is
\* relative; the loop ends at the first response without a next_page.
C28_NextPageJoinedOnce ==
    [][(LinkStep =>
          /\ LinkLoop
          /\ listLog'[Len(listLog')].url =
                IF IsAbsolute(listed'.link) THEN listed'.link
                ELSE JoinedOnce(listed'.link))
       /\ LinkEnd']_vars

\* C28 amended: the same, where absolute means beginning with "http" and
\* the relative next_page begins with at most one slash; a next_page that
\* begins with several slashes is appended to the base URL as it is.
C28_NextPageJoined ==
    [][(LinkStep =>
          /\ LinkLoop
          /\ listLog'[Len(listLog')].url =
                IF IsAbsolute(listed'.link) THEN listed'.link
                ELSE IF DoubleSlashed(listed'.link) THEN BaseUrl \o listed'.link
                ELSE JoinedOnce(listed'.link))
       /\ LinkEnd']_vars

\* C28 happens: the first page named a relative next_page without a leading
\* slash, a deletion of that page was made, and the request for the joined
\* URL is in flight
C28_RelativePageRequested ==
    /\ stats.name \in LinkKinds /\ kpc = "list" /\ Len(listLog) = 2
    /\ listed.link = <<"feed", "p2">>
    /\ listLog[2].url = <<"http", "api", "/", "feed", "p2">>
    /\ stats.deleted >= 1

\* a page-number page that was short, or numbered OSHA_MAX_PAGE_NUMBER or
\* more, has been consumed
PageModeOver(pages) ==
    \E k \in 1..Len(pages) :
        /\ pages[k].page_number # 0
        /\ \/ pages[k].n < OSHA_PAGE_SIZE
           \/ pages[k].page_number >= OSHA_MAX_PAGE_NUMBER

\* C29: in delete_osha_cases, once a short page-number page or the page
\* numbered OSHA_MAX_PAGE_NUMBER has been consumed, no new page-number fetch
\* is started, whether or not a response carried a next_page_token.
C29_PageModeStops ==
    [][(stats'.name = "osha_cases" /\ PageModeOver(processed')) =>
          \A k \in (Len(listLog) + 1)..Len(listLog') :
              listLog'[k].page_number = 0]_vars

\* C30: once delete_osha_cases has made a token request it goes on by token
\* alone: every page consumed after a token page is a token page, never the
\* response of a page-number fetch.
C30_TokenModeSequential ==
    stats.name = "osha_cases" =>
        \A j \in 1..Len(processed) : \A k \in 1..Len(processed) :
            (j < k /\ processed[j].page_token # 0) => processed[k].page_number = 0

\* C31: delete_osha_cases terminates against every backend that holds
\* finitely many cases and hands out a finite chain of page tokens: the
\* method returns, or a listing request raises, after finitely many
\* listing requests.
C31_OshaTerminates == <>(runPc \in {"done", "crashed"})

\* C31 happens: the method returned after page-number pages up to the
\* maximum page number and two token pages
C31_ReturnedAfterTokens ==
    /\ Returned /\ stats.name = "osha_cases" /\ tokenMode
    /\ \E k \in 1..Len(processed) : processed[k].page_number = OSHA_MAX_PAGE_NUMBER
    /\ Cardinality({k \in 1..Len(processed) : processed[k].page_token # 0}) = 2

\* the kinds whose listing requests are made one after the other
SequentialKinds == Kinds \ {"osha_cases"}

\* a sequentially paginated kind issues a listing request, or returns, only
\* when every delete task it created has completed
DrainedFirst ==
    (/\ stats.name \in SequentialKinds /\ runPc = "processing"
     /\ (Len(listLog') # Len(listLog) \/ idx' # idx \/ runPc' = "summary")) =>
        \A i \in 1..Len(tasks) : tasks[i].pc = "done"

\* while a listing request is in flight no delete task exists, and the
\* outstanding delete tasks are never more than the items of the page in
\* hand, which are at most a page
OnePageOutstanding ==
    (stats.name \in SequentialKinds /\ runPc = "processing") =>
        /\ kpc = "list" => tasks = <<>>
        /\ Cardinality(Unfinished) <= data.n
        /\ data.n <= PageLimit(stats.name)

\* C32: each sequentially paginated kind drains between pagination steps: a
\* listing request for the next page is issued only when no delete task of
\* the kind is outstanding, so the outstanding delete tasks never exceed
\* the items of one page.
C32_DrainsBetweenPages == [][DrainedFirst /\ OnePageOutstanding']_vars

\* C32 happens: the second listing request of delete_investigations is in
\* flight after a page of two investigations, both deletions made
C32_SecondPageAfterDrain ==
    /\ stats.name = "issues" /\ runPc = "processing" /\ kpc = "list"
    /\ Len(listLog) = 2 /\ processed[1].n = 2
    /\ stats.fetched = 2 /\ stats.deleted + stats.failed = 2
    /\ tasks = <<>>

\* the stats returned so far stay as they are; stats are returned only when
\* every delete task of their kind has completed, and none of its tasks is
\* kept; a page fetch that delete_osha_cases left behind changes no stats
\* when it is answered
C33_Step ==
    /\ Len(summaries') >= Len(summaries)
    /\ SubSeq(summaries', 1, Len(summaries)) = summaries
    /\ Len(summaries') > Len(summaries) =>
         /\ Len(summaries') = Len(summaries) + 1
         /\ summaries'[Len(summaries')].name = stats.name
         /\ \A i \in 1..Len(tasks) : tasks[i].pc = "done"
         /\ tasks' = <<>>
    /\ (inFlight' # inFlight /\ stats.name # "osha_cases"
                            /\ stats'.name # "osha_cases") =>
         stats' = stats /\ tasks' = tasks

\* C33: once a kind's delete method has returned, its ResourceStats never
\* change again: processing a later kind leaves them as they are, and no
\* task of the earlier kind that could write to them is still running.
C33_ReturnedStatsFrozen == [][C33_Step]_vars

\* C33 happens: delete_osha_cases returned with a case deleted, a page fetch
\* it left behind was answered while the next kind was processed, and that
\* kind has made a deletion of its own
C33_LaterKindAfterOsha ==
    /\ Len(summaries) = 1 /\ summaries[1].name = "osha_cases"
    /\ summaries[1].deleted = 1
    /\ runPc = "processing" /\ stats.name \in {"templates", "sites"}
    /\ stats.deleted >= 1
    /\ \E i \in 1..Len(inFlight) : inFlight[i].st = "done"

\* C34: in delete_companies every listed company lacking a company_id or a
\* company type id is recorded as one failure with a "missing identifiers"
\* error, and no deletion procedure, so no DELETE request, is made for it.
C34_CompanyMissingRecorded ==
    stats.name = "companies" =>
        /\ Count(stats.errors, "missing identifiers") = listed.incomplete
        /\ \A i \in 1..Len(tasks) : tasks[i].typed

\* the ids of the delete tasks of the page in hand
TaskIds == {tasks[i].ids[1] : i \in 1..Len(tasks)}

\* the tasks of a page of assets are one per id, for ids no earlier page of
\* either pass had listed
C35_Step ==
    (stats'.name = "assets" /\ tasks = <<>> /\ tasks' # <<>>) =>
        /\ \A i \in 1..Len(tasks') : Len(tasks'[i].ids) = 1
        /\ \A i \in 1..Len(tasks') : \A j \in 1..Len(tasks') :
             i # j => tasks'[i].ids # tasks'[j].ids
        /\ \A i \in 1..Len(tasks') :
             tasks'[i].ids[1] \in listed'.ids \ listed.ids
        /\ stats'.fetched = stats.fetched + Len(tasks')

\* fetched is the number of distinct ids listed so far, every one of them
\* has had its deletion procedure or has it in the page in hand, and no id
\* is in more than one delete call
C35_Distinct ==
    stats.name = "assets" =>
        /\ stats.fetched = Cardinality(listed.ids)
        /\ stats.deleted + stats.failed + Cardinality(Unfinished)
             = Cardinality(listed.ids)
        /\ \A a \in Ids : delCalls[a] <= 1

\* C35: delete_assets dispatches each asset id at most once over both of
\* its listing passes: an id is counted in fetched and given a deletion
\* task only the first time it is listed, so fetched equals the number of
\* distinct ids listed.
C35_AssetsOncePerId == [][C35_Step /\ C35_Distinct']_vars

\* C35 happens: the archived-only pass lists an asset of the first pass
\* again beside a new one, and only the new one gets a task
C35_RelistedInSecondPass ==
    /\ stats.name = "assets" /\ pass = 2 /\ kpc = "gather"
    /\ data.n = 2 /\ Len(tasks) = 1
    /\ listed.n = 3 /\ stats.fetched = 2 /\ Cardinality(listed.ids) = 2
    /\ stats.deleted = 1

\* the fetches created and not yet consumed: those left in in_flight and the
\* one awaited
StreamOutstanding ==
    Len(stream.in_flight) + (IF stream.pc = "await" THEN 1 ELSE 0)

\* C36: stream_actions_offset keeps at most LIST_CONCURRENCY page fetches in
\* flight, creates them at the offsets 0, PAGE_SIZE, 2 * PAGE_SIZE, ... in
\* that order, and yields the pages in increasing offset order (the k-th page
\* yielded is the one at offset (k - 1) * PAGE_SIZE, numbered k), whatever the
\* order in which the fetches are answered.
C36_PipelineInOffsetOrder ==
    /\ StreamOutstanding <= SCHEDULES_LIST_CONCURRENCY
    /\ \A k \in 1..Len(stream.requested) :
          stream.requested[k] = (k - 1) * PAGE_SIZE
    /\ \A k \in 1..Len(stream.yielded) :
          /\ stream.yielded[k].offset = (k - 1) * PAGE_SIZE
          /\ stream.yielded[k].page_number = k
    /\ \A k \in 1..(Len(stream.yielded) - 1) :
          stream.yielded[k].offset < stream.yielded[k + 1].offset

\* C36 witness: with one page yielded, the pipeline is full, the fetch
\* awaited is still unanswered and every later fetch has been answered
C36_LaterFetchAnsweredFirst ==
    /\ stream.pc = "await" /\ stream.awaited.st = "pending"
    /\ Len(stream.yielded) = 1
    /\ StreamOutstanding = SCHEDULES_LIST_CONCURRENCY
    /\ \A i \in 1..Len(stream.in_flight) : stream.in_flight[i].st = "done"

\* C37: the first page with fewer than PAGE_SIZE items is the last page
\* stream_actions_offset yields: every page yielded before another one is
\* full.  Violated: the fetches already in flight when the short page
\* arrives are still popped, awaited and yielded.
C37_ShortPageIsLast ==
    \A k \in 1..(Len(stream.yielded) - 1) : stream.yielded[k].n = PAGE_SIZE

\* the assets of the chunks archive_and_delete_assets has begun
AssetsBegun ==
    {k \in 1..Len(assetRun.assets) : k <= assetRun.start + ASSET_CHUNK}

\* C38: when archive_and_delete_assets is left, every asset of a chunk it
\* began has had exactly one delete_asset call, whether its archive call
\* succeeded, failed or was skipped.  Violated: an archive call that runs
\* into the session's total timeout raises out of asyncio.gather, and the
\* chunk gets no delete call.
C38_EveryAssetDeleteCalledOnce ==
    assetRun.pc \in {"done", "raised"}
        => \A k \in AssetsBegun : assetRun.deletes[k] = 1

\* the number a text of decimal digits denotes, read from its first digit
RECURSIVE Denotes(_, _)
Denotes(text, acc) ==
    IF text = <<>> THEN acc
    ELSE Denotes(Tail(text), 10 * acc + (IF Head(text) = "3" THEN 3 ELSE 0))

Numeric(text) == text # <<>> /\ \A k \in 1..Len(text) : text[k] \notin {"."}

Clamped(w) == IF w < 1 THEN 1 ELSE IF w > 300 THEN 300 ELSE w

\* C39: in unarchive_single_inspection the k-th sleep follows the k-th
\* response; after a 429 with a numeric Retry-After value w it lasts exactly
\* max(1, min(w, 300)) seconds, after a 429 without one it lasts
\* RETRY_BASE_DELAY * 2^attempt; every sleep is followed by one more attempt;
\* at most MAX_RETRIES attempts are made, and one result row is produced,
\* when the call ends.
C39_RetryAfterSleepAndOneRow ==
    /\ Len(unarchive.tries) <= MAX_RETRIES
    /\ Len(unarchive.slept) <= Len(unarchive.tries)
    /\ \A k \in 1..Len(unarchive.slept) :
          LET resp == unarchive.tries[k]
          IN  resp.status = 429 =>
                IF Numeric(resp.retry_after)
                THEN unarchive.slept[k] = Clamped(Denotes(resp.retry_after, 0))
                ELSE unarchive.slept[k] = RETRY_BASE_DELAY * (2 ^ (k - 1))
    /\ unarchive.pc = "attempt" => Len(unarchive.tries) = unarchive.attempt
    /\ unarchive.pc = "sleeping" =>
          /\ Len(unarchive.slept) = Len(unarchive.tries)
          /\ unarchive.attempt < MAX_RETRIES - 1
    /\ unarchive.pc = "done" =>
          /\ Len(unarchive.tries) = Len(unarchive.slept) + 1
          /\ Len(unarchive.rows) = 1
    /\ unarchive.pc # "done" => unarchive.rows = <<>>

\* C39 witness: a 429 with Retry-After "000" was followed by a sleep of 1
\* second, a 429 with Retry-After "303" by a sleep of 300 seconds, and the
\* third attempt ended the call with its one row
C39_ClampedBothWays ==
    /\ unarchive.pc = "done"
    /\ Len(unarchive.tries) = 3
    /\ unarchive.tries[1] = [status |-> 429, retry_after |-> <<"0", "0", "0">>]
    /\ unarchive.tries[2] = [status |-> 429, retry_after |-> <<"3", "0", "3">>]
    /\ unarchive.tries[3].status = 429
    /\ unarchive.slept = <<1, 300>>
    /\ unarchive.rows = <<"ERROR">>

\* C40: a run of the unarchive script sends no request for an identifier
\* that had a row in unarchive_results.csv when the run began.  Violated:
\* pd.read_csv reads a log whose audit_id cells are all digits as integers,
\* so "03" is read back as "3" and the identifier "03" of a mixed input is
\* requested again.
C40_LoggedIdsNotRequested ==
    \A q \in resume.requests :
        q.run = resume.run => q.audit_id \notin resume.prior

=============================================================================
